---- MODULE Spec2Model ----
(***************************************************************************)
(* WildLab_Bot2.1: review ingestion, auto-reply and manual reply.          *)
(*                                                                         *)
(* The store is the reviews table of bot.db (models.py); the coroutines    *)
(* are the sweep check_new_reviews (started by the scheduler and by        *)
(* reviews_list_handler) and the manual reply send_review_reply.  Each     *)
(* action is one run of a coroutine between two suspension points: the     *)
(* awaits on the remote API (get_unanswered_reviews, send_reply) and on    *)
(* bot.send_message.  normalize_review_fields holds no suspension point.   *)
(*                                                                         *)
(* The specifications share the state: Spec (two sweeps of the keyed       *)
(* account and the manual reply, every commit going through), SweepSpec    *)
(* (one sweep over two keyed accounts, with items the loop fails on and a  *)
(* commit that may raise), ApiSpec (one call of send_reply or              *)
(* get_unanswered_reviews through the loop of _make_request; ApiFairSpec   *)
(* adds that the request in flight is answered), PureSpec (one call of a   *)
(* function of wb_api.py that awaits nothing), LookupSpec (one call of     *)
(* get_review_by_id) and ReadSpec (the sweeps and the query of             *)
(* reviews_list_handler).                                                  *)
(*                                                                         *)
(* Python text is written in ASCII: "ne ukazany" stands for the            *)
(* placeholder the handlers compare with (reviews.py 196, 198, 303),       *)
(* "Otlichno" and "plohaya upakovka" for the texts of the spec's examples. *)
(***************************************************************************)
EXTENDS Integers, Sequences, FiniteSets, TLC

\* ---------------------------------------------------------------- bounds

\* Longest list the remote API hands back for one fetch.
MaxBatch == 2

\* ------------------------------------------------- JSON and Python values

JNull == [t |-> "null"]
JStr(s) == [t |-> "str", v |-> s]
JInt(n) == [t |-> "int", v |-> n]
JBool(b) == [t |-> "bool", v |-> b]
JList(q) == [t |-> "list", v |-> q]
JDict(d) == [t |-> "dict", v |-> d]

EmptyDict == JDict([k \in {} |-> JNull])

\* bool(x) of Python
Truthy(x) ==
    CASE x.t = "null" -> FALSE
      [] x.t = "str" -> x.v # ""
      [] x.t = "int" -> x.v # 0
      [] x.t = "bool" -> x.v
      [] x.t = "list" -> x.v # <<>>
      [] x.t = "dict" -> DOMAIN x.v # {}

\* dict.get(key, default)
Get(d, key, default) == IF key \in DOMAIN d.v THEN d.v[key] ELSE default

\* The texts of the model and what str.strip() and str.lower() make of them.
Placeholder == "ne ukazany"

Strip(s) ==
    CASE s = " " -> ""
      [] s = " ne ukazany " -> "ne ukazany"
      [] OTHER -> s

Lower(s) ==
    CASE s = "Ne ukazany" -> "ne ukazany"
      [] s = "Otlichno" -> "otlichno"
      [] s = "A" -> "a"
      [] s = "B" -> "b"
      [] s = "True" -> "true"
      [] s = "False" -> "false"
      [] OTHER -> s

\* str(x) of Python, for the values the model holds
DigitStr(n) == CASE n = 0 -> "0" [] n = 1 -> "1" [] n = 2 -> "2" [] n = 3 -> "3"
                 [] n = 4 -> "4" [] n = 5 -> "5" [] n = 6 -> "6" [] n = 7 -> "7"
                 [] n = 8 -> "8" [] n = 9 -> "9"

RECURSIVE NatStr(_)
NatStr(n) == IF n < 10 THEN DigitStr(n) ELSE NatStr(n \div 10) \o DigitStr(n % 10)

PyStr(x) ==
    CASE x.t = "null" -> "None"
      [] x.t = "str" -> x.v
      [] x.t = "int" -> IF x.v < 0 THEN "-" \o NatStr(-x.v) ELSE NatStr(x.v)
      [] x.t = "bool" -> IF x.v THEN "True" ELSE "False"
      [] x.t = "list" -> "[...]"
      [] x.t = "dict" -> "{...}"

\* int(x) of Python: [ok, v]; ok = FALSE is a TypeError or a ValueError
NumeralValue(s) ==
    CASE s = "0" -> 0 [] s = "1" -> 1 [] s = "2" -> 2 [] s = "3" -> 3
      [] s = "4" -> 4 [] s = "5" -> 5 [] OTHER -> -1

PyInt(x) ==
    CASE x.t = "int" -> [ok |-> TRUE, v |-> x.v]
      [] x.t = "bool" -> [ok |-> TRUE, v |-> IF x.v THEN 1 ELSE 0]
      [] x.t = "str" -> [ok |-> NumeralValue(Strip(x.v)) >= 0, v |-> NumeralValue(Strip(x.v))]
      [] OTHER -> [ok |-> FALSE, v |-> 0]

\* json.dumps of a list of strings and nulls
DumpItem(x) == IF x.t = "str" THEN "\"" \o x.v \o "\"" ELSE "null"

RECURSIVE DumpItems(_)
DumpItems(q) ==
    IF q = <<>> THEN ""
    ELSE IF Len(q) = 1 THEN DumpItem(q[1])
    ELSE DumpItem(q[1]) \o ", " \o DumpItems(Tail(q))

\* json.dumps, were the items of the list lost.
json_dumps_empty(q) == "[]"

json_dumps(q) == "[" \o DumpItems(q) \o "]"

\* json.loads of the strings the model's photo field and the bodies of
\* its responses can hold:
\* [ok, v]; ok = FALSE is a JSONDecodeError
json_loads(s) ==
    CASE s = "[]" -> [ok |-> TRUE, v |-> JList(<<>>)]
      [] s = "[\"A\"]" -> [ok |-> TRUE, v |-> JList(<<JStr("A")>>)]
      [] s = "[\"A\", \"B\"]" -> [ok |-> TRUE, v |-> JList(<<JStr("A"), JStr("B")>>)]
      [] s = "[\"B\"]" -> [ok |-> TRUE, v |-> JList(<<JStr("B")>>)]
      [] s = "[null]" -> [ok |-> TRUE, v |-> JList(<<JNull>>)]
      [] s = "[{\"fullSize\": \"A\"}]" -> [ok |-> TRUE, v |-> JList(<<JDict([fullSize |-> JStr("A")])>>)]
      [] s = "\"A\"" -> [ok |-> TRUE, v |-> JStr("A")]
      [] s = "{}" -> [ok |-> TRUE, v |-> EmptyDict]
      [] s = "{\"data\": {\"feedbacks\": [{\"id\": \"r1\"}]}, \"error\": false}" ->
             [ok |-> TRUE,
              v |-> JDict([data |-> JDict([feedbacks |-> JList(<<JDict([id |-> JStr("r1")])>>)]),
                           error |-> JBool(FALSE)])]
      [] s = "{\"error\": true, \"errorText\": \"bad\"}" ->
             [ok |-> TRUE, v |-> JDict([error |-> JBool(TRUE), errorText |-> JStr("bad")])]
      [] s = "{\"data\": null}" -> [ok |-> TRUE, v |-> JDict([data |-> JNull])]
      [] s = "{\"data\": {\"feedbacks\": \"none\"}}" ->
             [ok |-> TRUE, v |-> JDict([data |-> JDict([feedbacks |-> JStr("none")])])]
      [] OTHER -> [ok |-> FALSE, v |-> JNull]

\* ------------------------------------------------------------ wb_api.py

\* The loop of _extract_photo_links over a list whose first item is a dict:
\* [ok, v]; ok = FALSE is the TypeError of `"fullSize" in photo` on a photo
\* that is no container.
RECURSIVE PhotoLoop(_)
PhotoLoop(q) ==
    IF q = <<>> THEN [ok |-> TRUE, v |-> <<>>]
    ELSE LET photo == q[1]
             rest == PhotoLoop(Tail(q))
             here == CASE photo.t = "dict" ->
                              IF "fullSize" \in DOMAIN photo.v THEN <<photo.v["fullSize"]>>
                              ELSE IF "miniSize" \in DOMAIN photo.v THEN <<photo.v["miniSize"]>>
                              ELSE <<>>
                       [] OTHER -> <<>>
         IN  IF photo.t \in {"null", "int", "bool"} THEN [ok |-> FALSE, v |-> <<>>]
             ELSE [ok |-> rest.ok, v |-> here \o rest.v]

\* _extract_photo_links, were a list of URL strings not one of its shapes.
PhotoLinksOfRecords(photo_links) ==
    IF ~Truthy(photo_links) THEN <<>>
    ELSE IF photo_links.t = "list" /\ photo_links.v[1].t = "dict"
         THEN IF PhotoLoop(photo_links.v).ok THEN PhotoLoop(photo_links.v).v ELSE <<>>
    ELSE <<>>

\* WildberriesAPI._extract_photo_links on the value of the photo field,
\* after the JSON string (if it is one) has been decoded.
PhotoLinksOf(photo_links) ==
    IF ~Truthy(photo_links) THEN <<>>
    ELSE IF photo_links.t = "list" /\ photo_links.v[1].t = "dict"
         THEN IF PhotoLoop(photo_links.v).ok THEN PhotoLoop(photo_links.v).v ELSE <<>>
    ELSE IF photo_links.t = "list" /\ photo_links.v[1].t = "str" THEN photo_links.v
    ELSE <<>>

\* WildberriesAPI._extract_photo_links(review): never raises
extract_photo_links(review) ==
    IF review.t # "dict" THEN <<>>
    ELSE LET photo_links == Get(review, "photoLinks", JList(<<>>))
         IN  IF ~Truthy(photo_links) THEN <<>>
             ELSE IF photo_links.t = "str"
                  THEN LET parsed == json_loads(photo_links.v)
                       IN  IF parsed.ok /\ parsed.v.t = "list"
                           THEN PhotoLinksOf(parsed.v)
                           ELSE <<>>
                  ELSE PhotoLinksOf(photo_links)

\* The record of the except branch of normalize_review_fields
SafeDefaults(sid, comment) ==
    [source_api_id |-> sid, comment |-> comment, stars |-> 0,
     is_answered |-> JBool(FALSE), pros |-> JStr(""), cons |-> JStr(""),
     photo_url |-> FALSE, photo_urls |-> "[]", response |-> JStr(""),
     product_name |-> JStr(""), product_id |-> "", supplier_article |-> JStr(""),
     subject_name |-> JStr("")]

NoneToEmpty(x) == IF x.t = "null" THEN JStr("") ELSE x

\* The try branch of normalize_review_fields, for a dict whose
\* productValuation int() accepts.
NormalizedFields(review) ==
    LET photo_links == extract_photo_links(review)
        answer == Get(review, "answer", EmptyDict)
        product_details == Get(review, "productDetails", EmptyDict)
        details == product_details.t = "dict"
    IN  [source_api_id |-> PyStr(Get(review, "id", JStr(""))),
         stars |-> PyInt(Get(review, "productValuation", JInt(0))).v,
         comment |-> Get(review, "text", JStr("")),
         pros |-> NoneToEmpty(Get(review, "pros", JStr(""))),
         cons |-> NoneToEmpty(Get(review, "cons", JStr(""))),
         photo_urls |-> IF photo_links # <<>> THEN json_dumps(photo_links) ELSE "[]",
         photo_url |-> photo_links # <<>>,
         is_answered |-> IF Get(review, "isAnswered", JBool(FALSE)).t = "null"
                         THEN JBool(FALSE) ELSE Get(review, "isAnswered", JBool(FALSE)),
         response |-> IF answer.t = "dict" THEN Get(answer, "text", JStr("")) ELSE JStr(""),
         product_name |-> IF details THEN Get(product_details, "productName", JStr("")) ELSE JStr(""),
         product_id |-> IF details THEN PyStr(Get(product_details, "nmId", JStr(""))) ELSE "",
         supplier_article |-> IF details THEN Get(product_details, "supplierArticle", JStr("")) ELSE JStr(""),
         subject_name |-> Get(review, "subjectName", JStr(""))]

\* normalize_review_fields(review): [raised, rec].  A review that is no dict
\* fails at its first .get; the except branch then reads review.get again
\* unless the review is falsy, and that second failure leaves the function.
normalize_review_fields(review) ==
    IF review.t = "dict"
    THEN IF PyInt(Get(review, "productValuation", JInt(0))).ok
         THEN [raised |-> FALSE, rec |-> NormalizedFields(review)]
         ELSE [raised |-> FALSE,
               rec |-> SafeDefaults(PyStr(Get(review, "id", JStr(""))),
                                    JStr(PyStr(Get(review, "text", JStr("")))))]
    ELSE IF Truthy(review)
         THEN [raised |-> TRUE, rec |-> SafeDefaults("", JStr(""))]
         ELSE [raised |-> FALSE, rec |-> SafeDefaults("", JStr(""))]

\* ------------------------------------------------------------ models.py

\* The columns class Review declares.
ReviewColumns ==
    {"id", "user_id", "source_api_id", "stars", "comment", "pros", "cons",
     "photo_url", "response", "is_answered"}

\* The columns db_migration.py adds to the reviews table.
MigratedColumns ==
    {"photo_urls", "product_name", "product_id", "supplier_article", "subject_name"}

\* A TEXT column of SQLite keeps a number as its text: photo_url is
\* Column(Text) and is bound a Python bool, which sqlite3 binds as 1 or 0.
TextAffinity(b) == JStr(IF b THEN "1" ELSE "0")

\* ------------------------------------------------- handlers/reviews.py

\* The keyword arguments check_new_reviews hands to Review(...).
ReviewKwargs ==
    {"source_api_id", "user_id", "stars", "comment", "pros", "cons", "photo_url",
     "photo_urls", "response", "is_answered", "product_name", "product_id",
     "supplier_article", "subject_name"}

\* Review(**kwargs): the declarative constructor raises TypeError for a
\* keyword that is no attribute of the mapped class.
ReviewAccepts(mapped, kwargs) == kwargs \subseteq mapped

\* What the remote API lists: a five-star review without drawbacks, a
\* two-star review with one, and a review without any content.
RawFive ==
    JDict([id |-> JStr("r1"), productValuation |-> JInt(5), text |-> JStr("Otlichno"),
           pros |-> JStr(""), cons |-> JStr("Ne ukazany"), isAnswered |-> JBool(FALSE),
           productDetails |-> JDict([productName |-> JStr("Chashka"), nmId |-> JInt(17),
                                     supplierArticle |-> JStr("ch-1")]),
           subjectName |-> JStr("Posuda")])

RawTwo ==
    JDict([id |-> JStr("r2"), productValuation |-> JInt(2), text |-> JStr(""),
           pros |-> JNull, cons |-> JStr("plohaya upakovka"), isAnswered |-> JBool(FALSE),
           answer |-> JNull])

RawEmpty ==
    JDict([id |-> JStr("r3"), productValuation |-> JInt(5), text |-> JStr(""),
           pros |-> JStr("ne ukazany"), cons |-> JStr(""), isAnswered |-> JBool(FALSE)])

Catalogue == {RawFive, RawTwo, RawEmpty}

\* A review whose text is null: has_content raises AttributeError at
\* .strip().  An item of the list that is no dict: normalize_review_fields
\* raises AttributeError from its except branch.
RawBroken ==
    JDict([id |-> JStr("r4"), productValuation |-> JInt(4), text |-> JNull,
           pros |-> JStr("Udobno"), cons |-> JStr(""), isAnswered |-> JBool(FALSE)])

RawString == JStr("r5")

\* A review that carries no productValuation, and one whose productValuation
\* is null: int(None) raises TypeError and the except branch answers.
RawUnrated ==
    JDict([id |-> JStr("r6"), text |-> JStr("Normalno"), pros |-> JStr(""),
           cons |-> JStr(""), isAnswered |-> JBool(FALSE)])

RawUnratable ==
    JDict([id |-> JStr("r7"), productValuation |-> JNull, text |-> JStr("Normalno"),
           pros |-> JStr(""), cons |-> JStr(""), isAnswered |-> JBool(FALSE)])

Listed == Catalogue \cup {RawBroken, RawString, RawUnrated, RawUnratable}

\* normalized = await normalize_review_fields(review), for each review the
\* remote API lists.
Normalized == [review \in Listed |-> normalize_review_fields(review)]

\* The row the INSERT of a new Review writes.
NewRow(normalized, user_id) ==
    [user_id |-> user_id,
     source_api_id |-> normalized.source_api_id,
     stars |-> normalized.stars,
     comment |-> normalized.comment,
     pros |-> normalized.pros,
     cons |-> normalized.cons,
     photo_url |-> TextAffinity(normalized.photo_url),
     photo_urls |-> normalized.photo_urls,
     response |-> normalized.response,
     is_answered |-> Truthy(normalized.is_answered),
     product_name |-> normalized.product_name,
     product_id |-> normalized.product_id,
     supplier_article |-> normalized.supplier_article,
     subject_name |-> normalized.subject_name]

\* The query without the autoflush: it sees the committed rows only.
ExistsCommitted(table, pending, source_api_id, user_id) ==
    \E i \in 1..Len(table) :
        /\ table[i].source_api_id = source_api_id
        /\ table[i].user_id = user_id

\* session.query(Review).filter_by(source_api_id=..., user_id=...).first()
\* is not None.  The query autoflushes, so it sees the rows the session
\* has added and not yet committed.
Exists(table, pending, source_api_id, user_id) ==
    \/ \E i \in 1..Len(table) :
          table[i].source_api_id = source_api_id /\ table[i].user_id = user_id
    \/ \E i \in 1..Len(pending) :
          pending[i].source_api_id = source_api_id /\ pending[i].user_id = user_id

\* x.strip() and x.lower() != "не указаны", for x a str
Specified(x) == Strip(x.v) # "" /\ Lower(x.v) # Placeholder

\* The test with the placeholder taken for content.
has_content_unfiltered(normalized) ==
    IF normalized.comment.t # "str" \/ normalized.pros.t # "str" \/ normalized.cons.t # "str"
    THEN [raised |-> TRUE, v |-> FALSE]
    ELSE [raised |-> FALSE,
          v |-> \/ Strip(normalized.comment.v) # ""
                \/ Strip(normalized.pros.v) # ""
                \/ Strip(normalized.cons.v) # ""
                \/ normalized.photo_url]

\* The has_content test of check_new_reviews: [raised, v].  The list given
\* to any() is built whole, so a field that is no str raises whatever the
\* other fields hold.
has_content(normalized) ==
    IF normalized.comment.t # "str" \/ normalized.pros.t # "str" \/ normalized.cons.t # "str"
    THEN [raised |-> TRUE, v |-> FALSE]
    ELSE [raised |-> FALSE,
          v |-> \/ Strip(normalized.comment.v) # ""
                \/ Specified(normalized.pros)
                \/ Specified(normalized.cons)
                \/ normalized.photo_url]

\* The turn of the loop without the query for a stored row.
ProcessReviewUnchecked(mapped, table, pending, review, user_id) ==
    LET n == Normalized[review]
    IN  IF n.raised THEN "error"
        ELSE IF has_content(n.rec).raised THEN "error"
        ELSE IF ~has_content(n.rec).v THEN "empty"
        ELSE IF ~ReviewAccepts(mapped, ReviewKwargs) THEN "error"
        ELSE "added"

\* One turn of the loop over raw_reviews: the outcome for one raw review,
\* given the table and the rows the session has added in this pass.
\*   "error"   an exception reached the except of the loop body
\*   "exists"  a row with this (source_api_id, user_id) is there already
\*   "empty"   the review has no content
\*   "added"   session.add(new_review)
ProcessReview(mapped, table, pending, review, user_id) ==
    LET n == Normalized[review]
    IN  IF n.raised THEN "error"
        ELSE IF Exists(table, pending, n.rec.source_api_id, user_id) THEN "exists"
        ELSE IF has_content(n.rec).raised THEN "error"
        ELSE IF ~has_content(n.rec).v THEN "empty"
        ELSE IF ~ReviewAccepts(mapped, ReviewKwargs) THEN "error"
        ELSE "added"

\* The loop without the try of its body: the first error leaves the loop
\* and the pass, and nothing is committed.
RECURSIVE AddedRowsUncontained(_, _, _, _, _)
AddedRowsUncontained(mapped, table, pending, raw_reviews, user_id) ==
    IF raw_reviews = <<>> THEN pending
    ELSE IF ProcessReview(mapped, table, pending, raw_reviews[1], user_id) = "error"
    THEN <<>>
    ELSE AddedRowsUncontained(mapped, table,
                   IF ProcessReview(mapped, table, pending, raw_reviews[1], user_id) = "added"
                   THEN Append(pending,
                               NewRow(Normalized[raw_reviews[1]].rec, user_id))
                   ELSE pending,
                   Tail(raw_reviews), user_id)

\* The loop over raw_reviews: the rows the session holds pending after it.
RECURSIVE AddedRows(_, _, _, _, _)
AddedRows(mapped, table, pending, raw_reviews, user_id) ==
    IF raw_reviews = <<>> THEN pending
    ELSE AddedRows(mapped, table,
                   IF ProcessReview(mapped, table, pending, raw_reviews[1], user_id) = "added"
                   THEN Append(pending,
                               NewRow(Normalized[raw_reviews[1]].rec, user_id))
                   ELSE pending,
                   Tail(raw_reviews), user_id)

\* The outcomes of the loop, one per raw review, in order.
RECURSIVE Outcomes(_, _, _, _, _)
Outcomes(mapped, table, pending, raw_reviews, user_id) ==
    IF raw_reviews = <<>> THEN <<>>
    ELSE <<ProcessReview(mapped, table, pending, raw_reviews[1], user_id)>>
         \o Outcomes(mapped, table,
                     AddedRows(mapped, table, pending, <<raw_reviews[1]>>, user_id),
                     Tail(raw_reviews), user_id)

\* The loop without its commit: the pending rows are lost with the session.
CommitNothing(table, pending) == table

\* session.commit() after the loop: the pending rows reach the table, in
\* the order they were added.
CommitRows(table, pending) == table \o pending

\* The condition without the account's five-star switch.
PolicyUnswitched(user, review) ==
    /\ review.stars = 5
    /\ \/ ~Truthy(review.cons)
       \/ /\ review.cons.t = "str"
          /\ \/ Strip(review.cons.v) = ""
             \/ Lower(review.cons.v) = Placeholder

\* The condition of the auto-reply on a stored review (process_auto_replies).
\* A cons that is truthy and no str raises at .strip(); the except of the
\* loop body then passes the review over.
PolicyMatch(user, review) ==
    /\ user.auto_reply_five_stars
    /\ review.stars = 5
    /\ \/ ~Truthy(review.cons)
       \/ /\ review.cons.t = "str"
          /\ \/ Strip(review.cons.v) = ""
             \/ Lower(review.cons.v) = Placeholder

\* The fixed text of the auto-reply.
AutoReplyBody == "Spasibo za vashu vysokuyu otsenku!"

\* The text process_auto_replies sends: greeting and farewell around the body.
ComposeReply(user) ==
    LET greeted == IF Truthy(user.greeting)
                   THEN user.greeting.v \o " " \o AutoReplyBody ELSE AutoReplyBody
    IN  IF Truthy(user.farewell) THEN greeted \o " " \o user.farewell.v ELSE greeted

\* The query of process_auto_replies without its user_id filter.
UnansweredIdsOfAll(table, user_id) ==
    LET F[i \in 0..Len(table)] ==
            IF i = 0 THEN <<>>
            ELSE IF ~table[i].is_answered THEN Append(F[i - 1], i) ELSE F[i - 1]
    IN  F[Len(table)]


\* session.query(Review).filter_by(user_id=..., is_answered=False).all():
\* the ids of the rows, in table order.
UnansweredIds(table, user_id) ==
    LET F[i \in 0..Len(table)] ==
            IF i = 0 THEN <<>>
            ELSE IF table[i].user_id = user_id /\ ~table[i].is_answered
                 THEN Append(F[i - 1], i) ELSE F[i - 1]
    IN  F[Len(table)]

\* UPDATE reviews SET is_answered = 1, response = text for the rows the
\* session has set, at session.commit().
MarkAnswered(table, ids, text) ==
    [i \in 1..Len(table) |->
        IF i \in ids
        THEN [table[i] EXCEPT !.is_answered = TRUE, !.response = JStr(text)]
        ELSE table[i]]

\* The id of the first row with this (source_api_id, user_id), 0 if none:
\* session.query(Review).filter_by(...).first() of send_review_reply.
FirstRow(table, source_api_id, user_id) ==
    LET hits == {i \in 1..Len(table) :
                    /\ table[i].source_api_id = source_api_id
                    /\ table[i].user_id = user_id}
    IN  IF hits = {} THEN 0 ELSE CHOOSE i \in hits : \A j \in hits : i <= j

\* send_reply, were only feedback_id tested.
SendRejectedIdOnly(feedback_id, text) == feedback_id = ""

\* WildberriesAPI.send_reply returns False before any request when
\* feedback_id or text is empty.
SendRejected(feedback_id, text) == feedback_id = "" \/ text = ""

\* ------------------------------------------------------- the environment

\* The accounts of user_settings: account 1 holds a credential and its
\* toggles are free; account 2 holds none.
UserIds == {1, 2}

AccountChoices ==
    {[u \in UserIds |->
        IF u = 1
        THEN [user_id |-> 1, wb_api_key |-> JStr("K1"),
              notifications_enabled |-> n, auto_reply_enabled |-> a,
              auto_reply_five_stars |-> f,
              greeting |-> JStr("Zdravstvuyte!"), farewell |-> JNull]
        ELSE [user_id |-> u, wb_api_key |-> JNull,
              notifications_enabled |-> TRUE, auto_reply_enabled |-> TRUE,
              auto_reply_five_stars |-> TRUE,
              greeting |-> JNull, farewell |-> JNull]] :
     n \in BOOLEAN, a \in BOOLEAN, f \in BOOLEAN}

RECURSIVE SeqsUpTo(_, _)
SeqsUpTo(S, n) ==
    IF n = 0 THEN {<<>>}
    ELSE SeqsUpTo(S, n - 1) \cup {Append(q, x) : q \in {r \in SeqsUpTo(S, n - 1) : Len(r) = n - 1}, x \in S}

Batches == SeqsUpTo(Catalogue, MaxBatch)

\* A row bot.db holds when the process starts: written before the
\* migration, and given the migration's defaults for the added columns.
LegacyRow(source_api_id, cons) ==
    [user_id |-> 1, source_api_id |-> source_api_id, stars |-> 5,
     comment |-> JStr("Otlichno"), pros |-> JStr(""), cons |-> cons,
     photo_url |-> JStr("0"), photo_urls |-> "[]", response |-> JNull,
     is_answered |-> FALSE, product_name |-> JStr(""), product_id |-> "",
     supplier_article |-> JStr(""), subject_name |-> JStr("")]

\* bot.db when the process starts: no review yet, or two unanswered
\* five-star reviews of account 1.
InitialTables ==
    {<<>>, <<LegacyRow("r0", JStr("")), LegacyRow("r1", JStr("ne ukazany"))>>}

\* The review the talker opens in the chat.
ReviewIds == {"r1"}

\* The text the user types as a reply (process_custom_reply).
ManualTexts == {"Blagodarim"}

\* The account whose conversation is modelled.
Talker == 1

\* The coroutines that run check_new_reviews: the scheduler's job and the
\* call of reviews_list_handler.
Sweeps == {"sched", "list"}

\* ------------------------------------------------------------- the state

VARIABLES
    attrs,      \* the attributes of the mapped class Review
    users,      \* user_settings: user_id -> account
    rows,       \* the reviews table, committed; a row's id is its index
    pc,         \* per sweep: "idle", or the await it is suspended in:
                \*   "fetch" (get_unanswered_reviews), "notify"
                \*   (bot.send_message), "reply" (send_reply)
    cur,        \* per sweep: the user_id of the account in hand, 0 if idle
    snap,       \* per sweep: `reviews` of process_auto_replies, as row ids
    pos,        \* per sweep: the index in snap of the review being answered
    marked,     \* per sweep: rows the session has set answered, uncommitted
    conv,       \* the FSM data of the talker's chat: review_id, generated_reply
    man,        \* send_review_reply of the talker: pc, feedback_id, text
    acks,       \* row ids for which an auto-reply's send_reply returned True
    failed,     \* row ids for which an auto-reply's send_reply returned False
    due,        \* per sweep: `failed` as it was when the sweep started
    att,        \* per sweep: row ids it has submitted a reply for in this pass
    newIds,     \* per sweep: ids of the rows it has added in this pass
    outs,       \* per sweep: what became of each raw review of this pass,
                \* kept while the sweep awaits the notification
    got,        \* the listing the latest step handed a sweep, and whether
                \* its session.commit() went through (kept by SweepSpec only)
    call,       \* the WildberriesAPI method under way: fn, feedback_id, text
    attempts,   \* _make_request: `attempts`
    last_error, \* _make_request: `last_error`
    heard,      \* what the transport has answered to the requests so far
    sleeps,     \* the arguments of the asyncio.sleep calls so far
    response,   \* what _make_request returned to the method
    returned,   \* what the method returned to its caller
    job,        \* the call of a function of wb_api.py that awaits nothing:
                \* fn and its arguments
    out,        \* what that call returned
    look,       \* get_review_by_id under way: pc, feedback_id, the is_answered
                \* arguments of its fetches, the pages they returned
    seen,       \* `db_reviews` of reviews_list_handler: what its latest query
                \* returned, as id, is_answered and response of each row
    chat,       \* the FSM context of the talker's chat, followed handler by
                \* handler: its state and the keys of its data the reply
                \* handlers read (a key that is absent holds the default
                \* its readers give to `data.get`)
    shown,      \* the bot's latest message in that chat: its kind, the
                \* review_id it is about, the alert it was answered with
    view,       \* review_detail_handler suspended in get_review_by_id: pc,
                \* review_id, the row `review` as the session loaded it
    regens      \* replies generated through regenerate_reply since the
                \* detail view last wrote regeneration_count

\* The state of one call of a WildberriesAPI method.
wire == <<call, attempts, last_error, heard, sleeps, response, returned>>

\* The state of the calls that are followed on their own.
side == <<job, out, look, seen>>

\* The conversation as its handlers are followed one by one.
talk == <<chat, shown, view, regens>>

vars == <<attrs, users, rows, pc, cur, snap, pos, marked, conv, man,
          acks, failed, due, att, newIds, outs, got, wire, side, talk>>

NoReview == ""

\* No listing has been handed to a sweep.
NoListing == [raw_reviews |-> <<>>, committed |-> TRUE]

\* No method of WildberriesAPI has been called.
NoReturn == [t |-> "none"]

NoCall ==
    /\ call = [fn |-> "none", feedback_id |-> "", text |-> ""]
    /\ attempts = 0
    /\ last_error = JNull
    /\ heard = <<>>
    /\ sleeps = <<>>
    /\ response = NoReturn
    /\ returned = NoReturn

\* No function is under way, no query has been made.
NoJob == [fn |-> "none"]

NoLookup == [pc |-> "idle", feedback_id |-> "", asked |-> <<>>, pages |-> <<>>]

NoSide ==
    /\ job = NoJob
    /\ out = NoReturn
    /\ look = NoLookup
    /\ seen = <<>>

\* The FSM context of a chat no handler has written to, and after
\* state.clear().
NoChat ==
    [state |-> "none", review_id |-> "", regeneration_count |-> 0,
     is_regenerate |-> FALSE, generated_reply |-> ""]

NoMessage == [kind |-> "none", review_id |-> "", alert |-> ""]

NoView == [pc |-> "idle", review_id |-> "", id |-> 0]

NoTalk ==
    /\ chat = NoChat
    /\ shown = NoMessage
    /\ view = NoView
    /\ regens = 0

Init ==
    /\ attrs \in {ReviewColumns, ReviewColumns \cup MigratedColumns}
    /\ users \in AccountChoices
    /\ rows \in InitialTables
    /\ pc = [s \in Sweeps |-> "idle"]
    /\ cur = [s \in Sweeps |-> 0]
    /\ snap = [s \in Sweeps |-> <<>>]
    /\ pos = [s \in Sweeps |-> 0]
    /\ marked = [s \in Sweeps |-> {}]
    /\ conv = [review_id |-> NoReview, generated_reply |-> ""]
    /\ man = [pc |-> "idle", feedback_id |-> NoReview, text |-> ""]
    /\ acks = {}
    /\ failed = {}
    /\ due = [s \in Sweeps |-> {}]
    /\ att = [s \in Sweeps |-> {}]
    /\ newIds = [s \in Sweeps |-> {}]
    /\ outs = [s \in Sweeps |-> <<>>]
    /\ got = NoListing
    /\ NoCall
    /\ NoSide
    /\ NoTalk

\* --------------------------------------------------- check_new_reviews

\* `for user in users: if not user.wb_api_key: continue`: the next account
\* after user_id `after` that holds a credential, 0 when the loop is over.
NextKeyed(after) ==
    LET keyed == {u \in UserIds : u > after /\ Truthy(users[u].wb_api_key)}
    IN  IF keyed = {} THEN 0 ELSE CHOOSE u \in keyed : \A w \in keyed : u <= w

\* The loop of process_auto_replies from index `from` on: the index of the
\* next review it awaits send_reply for, 0 when the loop is over.
NextMatch(user, table, reviews, from) ==
    LET hits == {i \in from..Len(reviews) :
                    /\ PolicyMatch(user, table[reviews[i]])
                    /\ ~SendRejected(table[reviews[i]].source_api_id, ComposeReply(user))}
    IN  IF hits = {} THEN 0 ELSE CHOOSE i \in hits : \A j \in hits : i <= j

\* The rows the session has set, were the result of send_reply not tested.
MarkAlways(success, set, id) == set \cup {id}

\* `if success:` of process_auto_replies: the rows the session has set.
Mark(success, set, id) == IF success THEN set \cup {id} ELSE set

\* process_auto_replies from index `from` on, up to its next await or, with
\* the loop over, through its commit and on to the next account.
Resume(table, u, reviews, from, set) ==
    LET i == NextMatch(users[u], table, reviews, from)
    IN  IF i # 0
        THEN [pc |-> "reply", cur |-> u, rows |-> table, snap |-> reviews,
              pos |-> i, marked |-> set]
        ELSE [pc |-> IF NextKeyed(u) = 0 THEN "idle" ELSE "fetch",
              cur |-> NextKeyed(u),
              rows |-> IF set # {} THEN MarkAnswered(table, set, ComposeReply(users[u]))
                       ELSE table,
              snap |-> <<>>, pos |-> 0, marked |-> {}]

\* `if user.auto_reply_enabled:` and what follows it.
AutoReplies(table, u) ==
    IF users[u].auto_reply_enabled
    THEN Resume(table, u, UnansweredIds(table, u), 1, {})
    ELSE [pc |-> IF NextKeyed(u) = 0 THEN "idle" ELSE "fetch", cur |-> NextKeyed(u),
          rows |-> table, snap |-> <<>>, pos |-> 0, marked |-> {}]

\* `if not raw_reviews: continue`
SkipAccount(table, u) ==
    [pc |-> IF NextKeyed(u) = 0 THEN "idle" ELSE "fetch", cur |-> NextKeyed(u),
     rows |-> table, snap |-> <<>>, pos |-> 0, marked |-> {}]

\* The pass of an account left through a handler that ends the sweep.
UserErrorEndsSweep(table, u) ==
    [pc |-> "idle", cur |-> 0, rows |-> table, snap |-> <<>>, pos |-> 0, marked |-> {}]

\* `except Exception as user_error`: the log, and the next turn of the loop
\* over the accounts; the rows the session held pending are gone with the
\* failed commit.
UserError(table, u) ==
    [pc |-> IF NextKeyed(u) = 0 THEN "idle" ELSE "fetch", cur |-> NextKeyed(u),
     rows |-> table, snap |-> <<>>, pos |-> 0, marked |-> {}]

\* The notification, were the account's switch not read.
NotifiesAnyway(user, new_reviews_count) == new_reviews_count > 0

\* `if new_reviews_count > 0:` ... `if user.notifications_enabled:`
Notifies(user, new_reviews_count) ==
    new_reviews_count > 0 /\ user.notifications_enabled

\* The sweep s moves to where r says, with the bookkeeping of the pass.
Goto(s, r) ==
    /\ pc' = [pc EXCEPT ![s] = r.pc]
    /\ cur' = [cur EXCEPT ![s] = r.cur]
    /\ rows' = r.rows
    /\ snap' = [snap EXCEPT ![s] = r.snap]
    /\ pos' = [pos EXCEPT ![s] = r.pos]
    /\ marked' = [marked EXCEPT ![s] = r.marked]
    /\ att' = [att EXCEPT ![s] = IF r.cur # cur[s] THEN {}
                                 ELSE IF r.pc = "reply" THEN @ \cup {r.snap[r.pos]}
                                 ELSE @]
    /\ due' = [due EXCEPT ![s] = IF r.pc = "idle" THEN {} ELSE @]

\* The rows a pass has added are kept until the sweep leaves the account,
\* the outcomes of its loop while it awaits the notification.
Keep(s, r, ids, outcomes) ==
    /\ newIds' = [newIds EXCEPT ![s] = IF r.cur # cur[s] THEN {} ELSE ids]
    /\ outs' = [outs EXCEPT ![s] = IF r.pc # "notify" THEN <<>> ELSE outcomes]

\* check_new_reviews is called: up to the first await of the fetch.
SweepStart(s) ==
    /\ pc[s] = "idle"
    /\ NextKeyed(0) # 0
    /\ pc' = [pc EXCEPT ![s] = "fetch"]
    /\ cur' = [cur EXCEPT ![s] = NextKeyed(0)]
    /\ due' = [due EXCEPT ![s] = failed]
    /\ UNCHANGED <<attrs, users, rows, snap, pos, marked, conv, man,
                   acks, failed, att, newIds, outs>>
    /\ got' = NoListing
    /\ UNCHANGED <<wire, side, talk>>

\* get_unanswered_reviews returns raw_reviews, [] for an error of the
\* request: the loop over them, the commit, and on to the await of the
\* notification, or through process_auto_replies to its first await, or to
\* the next account.  `committed` is whether session.commit() went through;
\* a commit that raises leaves through `except Exception as user_error`.
Fetched(s, raw_reviews, committed) ==
    /\ pc[s] = "fetch"
    /\ \E pending \in {AddedRows(attrs, rows, <<>>, raw_reviews, cur[s])} :
       \E r \in {IF raw_reviews = <<>> THEN SkipAccount(rows, cur[s])
                 ELSE IF Len(pending) > 0 /\ ~committed THEN UserError(rows, cur[s])
                 ELSE IF Notifies(users[cur[s]], Len(pending))
                 THEN [pc |-> "notify", cur |-> cur[s], rows |-> CommitRows(rows, pending),
                       snap |-> <<>>, pos |-> 0, marked |-> {}]
                 ELSE AutoReplies(IF Len(pending) > 0 THEN CommitRows(rows, pending)
                                  ELSE rows, cur[s])} :
          /\ Goto(s, r)
          /\ Keep(s, r, (Len(rows) + 1)..(Len(r.rows)),
                  Outcomes(attrs, rows, <<>>, raw_reviews, cur[s]))
    /\ UNCHANGED <<attrs, users, conv, man, acks, failed>>
    /\ UNCHANGED <<wire, side, talk>>

\* The fetch returns and the commit, if there is one, goes through.
FetchReturn(s, raw_reviews) ==
    /\ Fetched(s, raw_reviews, TRUE)
    /\ UNCHANGED got

\* The fetch returns; the commit, if there is one, goes through or raises
\* (`committed` is FALSE only for a commit that was tried).
ListingReturn(s, raw_reviews, committed) ==
    /\ committed \/ AddedRows(attrs, rows, <<>>, raw_reviews, cur[s]) # <<>>
    /\ Fetched(s, raw_reviews, committed)
    /\ got' = [raw_reviews |-> raw_reviews, committed |-> committed]

\* bot.send_message returns or raises; either way process_auto_replies is next.
NotifyReturn(s) ==
    /\ pc[s] = "notify"
    /\ \E r \in {AutoReplies(rows, cur[s])} :
          /\ Goto(s, r)
          /\ Keep(s, r, newIds[s], outs[s])
    /\ UNCHANGED <<attrs, users, conv, man, acks, failed>>
    /\ got' = NoListing
    /\ UNCHANGED <<wire, side, talk>>

\* send_reply returns `success` for the review in hand.
ReplyReturn(s, success) ==
    /\ pc[s] = "reply"
    /\ \E id \in {snap[s][pos[s]]} :
       \E r \in {Resume(rows, cur[s], snap[s], pos[s] + 1, Mark(success, marked[s], id))} :
           /\ Goto(s, r)
           /\ Keep(s, r, newIds[s], outs[s])
           /\ acks' = IF success THEN acks \cup {id} ELSE acks
           /\ failed' = IF success THEN failed ELSE failed \cup {id}
    /\ UNCHANGED <<attrs, users, conv, man>>
    /\ got' = NoListing
    /\ UNCHANGED <<wire, side, talk>>

\* ------------------------------------------------------- the manual reply

\* The attributes of `review` the detail view reads.
DetailReads ==
    {"stars", "supplier_article", "product_name", "comment", "pros", "cons",
     "photo_url", "photo_urls"}

\* review_detail_handler: the review is shown if it is stored unanswered
\* and the mapped class has the attributes the handler reads (it ends in
\* `except Exception` otherwise), and its id is kept in the FSM data.
review_detail_handler(review_id) ==
    /\ DetailReads \subseteq attrs
    /\ \E i \in 1..Len(rows) :
          /\ rows[i].source_api_id = review_id
          /\ rows[i].user_id = Talker
          /\ ~rows[i].is_answered
    /\ conv' = [conv EXCEPT !.review_id = review_id]
    /\ UNCHANGED <<attrs, users, rows, pc, cur, snap, pos, marked, man,
                   acks, failed, due, att, newIds, outs>>
    /\ UNCHANGED <<got, wire, side, talk>>

\* process_custom_reply: the text the user typed is kept as the reply.
process_custom_reply(text) ==
    /\ conv.review_id # NoReview
    /\ conv.generated_reply # text
    /\ conv' = [conv EXCEPT !.generated_reply = text]
    /\ UNCHANGED <<attrs, users, rows, pc, cur, snap, pos, marked, man,
                   acks, failed, due, att, newIds, outs>>
    /\ UNCHANGED <<got, wire, side, talk>>

\* send_reply_handler calls send_review_reply, which runs up to the await
\* of send_reply.
send_reply_handler ==
    /\ man.pc = "idle"
    /\ conv.review_id # NoReview
    /\ conv.generated_reply # ""
    /\ Truthy(users[Talker].wb_api_key)
    /\ ~SendRejected(conv.review_id, conv.generated_reply)
    /\ man' = [pc |-> "send", feedback_id |-> conv.review_id, text |-> conv.generated_reply]
    /\ UNCHANGED <<attrs, users, rows, pc, cur, snap, pos, marked, conv,
                   acks, failed, due, att, newIds, outs>>
    /\ UNCHANGED <<got, wire, side, talk>>

\* send_reply returns to send_review_reply: on True the row is set answered
\* and committed, and send_reply_handler clears the FSM data.
ManualReturn(result) ==
    /\ man.pc = "send"
    /\ LET id == FirstRow(rows, man.feedback_id, Talker)
       IN  rows' = IF result /\ id # 0 THEN MarkAnswered(rows, {id}, man.text) ELSE rows
    /\ conv' = IF result THEN [review_id |-> NoReview, generated_reply |-> ""] ELSE conv
    /\ man' = [pc |-> "idle", feedback_id |-> NoReview, text |-> ""]
    /\ UNCHANGED <<attrs, users, pc, cur, snap, pos, marked,
                   acks, failed, due, att, newIds, outs>>
    /\ UNCHANGED <<got, wire, side, talk>>

Next ==
    \/ \E s \in Sweeps : SweepStart(s)
    \/ \E s \in Sweeps : pc[s] = "fetch" /\ \E raw_reviews \in Batches : FetchReturn(s, raw_reviews)
    \/ \E s \in Sweeps : NotifyReturn(s)
    \/ \E s \in Sweeps, success \in BOOLEAN : ReplyReturn(s, success)
    \/ \E review_id \in ReviewIds : review_detail_handler(review_id)
    \/ \E text \in ManualTexts : process_custom_reply(text)
    \/ send_reply_handler
    \/ \E result \in BOOLEAN : ManualReturn(result)

Spec == Init /\ [][Next]_vars

\* ------------------------------------- one sweep over two keyed accounts

\* user_settings with a credential in both accounts.
KeyedAccounts ==
    {[u \in UserIds |->
        [user_id |-> u, wb_api_key |-> JStr("K"),
         notifications_enabled |-> n[u], auto_reply_enabled |-> a,
         auto_reply_five_stars |-> TRUE,
         greeting |-> JStr("Zdravstvuyte!"), farewell |-> JNull]] :
     n \in [UserIds -> BOOLEAN], a \in BOOLEAN}

\* The lists the remote API hands back: two reviews with content and the
\* two items the loop fails on.
Listings == SeqsUpTo({RawFive, RawTwo, RawBroken, RawString}, MaxBatch)

\* The scheduler's job alone.
Scheduled == "sched"

SweepInit ==
    /\ attrs \in {ReviewColumns, ReviewColumns \cup MigratedColumns}
    /\ users \in KeyedAccounts
    /\ rows \in InitialTables
    /\ pc = [s \in Sweeps |-> "idle"]
    /\ cur = [s \in Sweeps |-> 0]
    /\ snap = [s \in Sweeps |-> <<>>]
    /\ pos = [s \in Sweeps |-> 0]
    /\ marked = [s \in Sweeps |-> {}]
    /\ conv = [review_id |-> NoReview, generated_reply |-> ""]
    /\ man = [pc |-> "idle", feedback_id |-> NoReview, text |-> ""]
    /\ acks = {}
    /\ failed = {}
    /\ due = [s \in Sweeps |-> {}]
    /\ att = [s \in Sweeps |-> {}]
    /\ newIds = [s \in Sweeps |-> {}]
    /\ outs = [s \in Sweeps |-> <<>>]
    /\ got = NoListing
    /\ NoCall
    /\ NoSide
    /\ NoTalk

\* One sweep is followed, from bot.db as the process finds it.
SweepNext ==
    \/ rows \in InitialTables /\ acks = {} /\ failed = {} /\ SweepStart(Scheduled)
    \/ /\ pc[Scheduled] = "fetch"
       /\ \E raw_reviews \in Listings, committed \in BOOLEAN :
              ListingReturn(Scheduled, raw_reviews, committed)
    \/ NotifyReturn(Scheduled)
    \/ \E success \in BOOLEAN : ReplyReturn(Scheduled, success)

SweepSpec == SweepInit /\ [][SweepNext]_vars

\* ------------------------------------- one sweep over reviews as rated

\* The lists of one review: rated five, not rated, rated null.
RatedListings == {<<review>> : review \in {RawFive, RawUnrated, RawUnratable}}

\* One sweep is followed, as in SweepNext, over these lists.
IntakeNext ==
    \/ rows \in InitialTables /\ acks = {} /\ failed = {} /\ SweepStart(Scheduled)
    \/ /\ pc[Scheduled] = "fetch"
       /\ \E raw_reviews \in RatedListings, committed \in BOOLEAN :
              ListingReturn(Scheduled, raw_reviews, committed)
    \/ NotifyReturn(Scheduled)
    \/ \E success \in BOOLEAN : ReplyReturn(Scheduled, success)

IntakeSpec == SweepInit /\ [][IntakeNext]_vars

\* ------------------------------------------ the scheduler's sweeps, for ever

\* The ids the rows of the table can take.
RowIds == 1..4

\* bot.db holds the two five-star reviews, and account 1 has both switches
\* of the auto-reply on.
AutoInit ==
    /\ Init
    /\ rows # <<>>
    /\ users[1].auto_reply_enabled
    /\ users[1].auto_reply_five_stars

\* The scheduler's job, run after run.
AutoNext ==
    \/ SweepStart(Scheduled)
    \/ pc[Scheduled] = "fetch" /\ \E raw_reviews \in Batches : FetchReturn(Scheduled, raw_reviews)
    \/ NotifyReturn(Scheduled)
    \/ \E success \in BOOLEAN : ReplyReturn(Scheduled, success)

AutoSpec == AutoInit /\ [][AutoNext]_vars

\* The interval job of the scheduler fires again and again, every await of
\* the sweep returns, and send_reply, asked again and again for the same
\* review, returns True at some time.
AutoFairSpec ==
    /\ AutoSpec
    /\ WF_vars(SweepStart(Scheduled))
    /\ WF_vars(pc[Scheduled] = "fetch"
                 /\ \E raw_reviews \in Batches : FetchReturn(Scheduled, raw_reviews))
    /\ WF_vars(NotifyReturn(Scheduled))
    /\ WF_vars(\E success \in BOOLEAN : ReplyReturn(Scheduled, success))
    /\ \A id \in RowIds :
          SF_vars(pc[Scheduled] = "reply" /\ snap[Scheduled][pos[Scheduled]] = id
                    /\ ReplyReturn(Scheduled, TRUE))


\* ------------------------------------------- wb_api.py: the request loop

\* The variables of the sweeps and of the chat, which a call of a
\* WildberriesAPI method leaves alone.
bot == <<attrs, users, rows, pc, cur, snap, pos, marked, conv, man,
         acks, failed, due, att, newIds, outs, got, side, talk>>

\* `retry_count: int = 3`: no caller of _make_request passes another value.
retry_count == 3

\* response.status
Statuses == {200, 401, 403, 404, 429, 500}

\* response.headers.get("Retry-After"): absent, delay-seconds or an HTTP-date
RetryAfters == {JNull, JStr("2"), JStr("Fri, 06 Nov 2026 10:00:00 GMT")}

\* await response.text()
Bodies ==
    {"{\"data\": {\"feedbacks\": [{\"id\": \"r1\"}]}, \"error\": false}",
     "{}",
     "{\"error\": true, \"errorText\": \"bad\"}",
     "{\"data\": null}",
     "{\"data\": {\"feedbacks\": \"none\"}}",
     "[]",
     "<html>"}

\* What session.request and response.text() can come to for one request: a
\* response, asyncio.TimeoutError or aiohttp.ClientError.
Transport ==
    {[kind |-> "response", status |-> st, retry_after |-> JNull, text |-> b] :
        st \in Statuses \ {429}, b \in Bodies}
    \cup {[kind |-> "response", status |-> 429, retry_after |-> ra, text |-> ""] :
        ra \in RetryAfters}
    \cup {[kind |-> k, status |-> 0, retry_after |-> JNull, text |-> ""] :
        k \in {"TimeoutError", "ClientError"}}

\* {"error": {"message": ...}}
ErrorResult(message) == JDict([error |-> JDict([message |-> message])])

\* `if attempts < retry_count: await asyncio.sleep(2 ** attempts); continue`
\* and its else branch, for a response of status >= 400 that is neither 401
\* nor 403.
ErrorStatus(o, n, err) ==
    IF n < retry_count
    THEN [done |-> FALSE, response |-> NoReturn, slept |-> <<2 ^ n>>, last_error |-> err]
    ELSE [done |-> TRUE, slept |-> <<>>, last_error |-> err,
          response |-> ErrorResult(JStr("API error after " \o NatStr(retry_count)
                                        \o " retries (Status: " \o NatStr(o.status) \o ")"))]

\* The response of a status other than 429, from json.loads on.
Decoded(o, n, err) ==
    LET response_json == json_loads(o.text)
    IN  IF ~response_json.ok
        THEN [done |-> TRUE, slept |-> <<>>, last_error |-> err,
              response |-> ErrorResult(JStr("Invalid JSON response (Status: "
                                            \o NatStr(o.status) \o ")"))]
        ELSE IF o.status >= 400
        THEN IF o.status \in {401, 403}
             THEN [done |-> TRUE, slept |-> <<>>, last_error |-> err,
                   response |-> ErrorResult(JStr("Authentication error (Status: "
                                                 \o NatStr(o.status) \o ")"))]
             ELSE ErrorStatus(o, n, err)
        ELSE IF response_json.v.t # "dict"
        THEN [done |-> TRUE, slept |-> <<>>, last_error |-> err,
              response |-> JDict([data |-> response_json.v])]
        ELSE [done |-> TRUE, slept |-> <<>>, last_error |-> err, response |-> response_json.v]

\* `if response.status == 429`: int() of the header, the sleep, `continue`;
\* a header int() cannot read raises ValueError into `except Exception`.
RateLimited(o, n, err) ==
    LET retry_after == PyInt(IF o.retry_after = JNull THEN JInt(5) ELSE o.retry_after)
    IN  IF retry_after.ok
        THEN [done |-> FALSE, response |-> NoReturn, slept |-> <<retry_after.v>>,
              last_error |-> err]
        ELSE [done |-> FALSE, response |-> NoReturn, slept |-> <<1>>,
              last_error |-> JStr("Unexpected error")]

\* One pass of the body of `while attempts < retry_count`, from the answer
\* `o` of the transport to attempt n, with last_error = err: whether
\* _make_request returns (done) and what, the sleeps of the pass, last_error.
Attempt(o, n, err) ==
    CASE o.kind = "TimeoutError" ->
             [done |-> FALSE, response |-> NoReturn, slept |-> <<2 ^ n>>,
              last_error |-> JStr("Request timeout")]
      [] o.kind = "ClientError" ->
             [done |-> FALSE, response |-> NoReturn, slept |-> <<2 ^ n>>,
              last_error |-> JStr("HTTP client error")]
      [] o.kind = "response" /\ o.status = 429 -> RateLimited(o, n, err)
      [] OTHER -> Decoded(o, n, err)

\* send_reply, were only the presence of the key `error` tested.
SendReplyKeyOnly(resp) ==
    IF "error" \in DOMAIN resp.v THEN JBool(FALSE) ELSE JBool(TRUE)


\* send_reply, were the result of _make_request not tested.
SendReplyUnchecked(resp) == JBool(TRUE)

\* send_reply, from the return of _make_request on
SendReplyResult(resp) ==
    IF Truthy(Get(resp, "error", JNull)) THEN JBool(FALSE) ELSE JBool(TRUE)

\* get_unanswered_reviews without its `except Exception`.
FeedbacksUncaught(resp) ==
    IF Truthy(Get(resp, "error", JNull)) THEN JList(<<>>)
    ELSE LET data == Get(resp, "data", EmptyDict)
         IN  IF data.t # "dict" THEN [t |-> "raised"]
             ELSE LET feedbacks == Get(data, "feedbacks", JList(<<>>))
                  IN  IF feedbacks.t # "list" THEN JList(<<>>) ELSE feedbacks

\* get_unanswered_reviews, from the return of _make_request on; a `data`
\* that is no dict raises AttributeError into `except Exception`.
Feedbacks(resp) ==
    IF Truthy(Get(resp, "error", JNull)) THEN JList(<<>>)
    ELSE LET data == Get(resp, "data", EmptyDict)
         IN  IF data.t # "dict" THEN JList(<<>>)
             ELSE LET feedbacks == Get(data, "feedbacks", JList(<<>>))
                  IN  IF feedbacks.t # "list" THEN JList(<<>>) ELSE feedbacks

MethodResult(fn, resp) ==
    IF fn = "send_reply" THEN SendReplyResult(resp) ELSE Feedbacks(resp)

\* The arguments of send_reply the model calls it with.
FeedbackIds == {"", "r1"}
ReplyTexts == {"", "Spasibo"}

\* send_reply is called: it returns False, or runs up to the first request.
send_reply(feedback_id, text) ==
    /\ call.fn = "none"
    /\ call' = [fn |-> "send_reply", feedback_id |-> feedback_id, text |-> text]
    /\ attempts' = IF SendRejected(feedback_id, text) THEN 0 ELSE 1
    /\ returned' = IF SendRejected(feedback_id, text) THEN JBool(FALSE) ELSE NoReturn
    /\ UNCHANGED <<last_error, heard, sleeps, response>>
    /\ UNCHANGED bot

\* get_unanswered_reviews is called: up to the first request.
get_unanswered_reviews ==
    /\ call.fn = "none"
    /\ call' = [fn |-> "get_unanswered_reviews", feedback_id |-> "", text |-> ""]
    /\ attempts' = 1
    /\ UNCHANGED <<last_error, heard, sleeps, response, returned>>
    /\ UNCHANGED bot

\* The loop, were its test `attempts <= retry_count`.
WhileAttemptsInclusive(n) == n <= retry_count

\* `while attempts < retry_count`
WhileAttempts(n) == n < retry_count

\* The transport answers the request in flight with `o`: the rest of the
\* pass of the loop, then the next request, or the return of _make_request
\* and with it the return of the method.
make_request(o) ==
    /\ call.fn # "none"
    /\ returned = NoReturn
    /\ \E a \in {Attempt(o, attempts, last_error)} :
       \E r \in {IF a.done THEN a.response
                 ELSE IF WhileAttempts(attempts) THEN NoReturn
                 ELSE ErrorResult(a.last_error)} :
          /\ heard' = Append(heard, o)
          /\ sleeps' = sleeps \o a.slept
          /\ last_error' = a.last_error
          /\ attempts' = IF r = NoReturn THEN attempts + 1 ELSE attempts
          /\ response' = r
          /\ returned' = IF r = NoReturn THEN NoReturn ELSE MethodResult(call.fn, r)
    /\ UNCHANGED call
    /\ UNCHANGED bot

ApiInit ==
    /\ Init
    /\ attrs = ReviewColumns
    /\ rows = <<>>
    /\ \A f \in {"notifications_enabled", "auto_reply_enabled", "auto_reply_five_stars"} :
          users[1][f]

ApiNext ==
    \/ \E feedback_id \in FeedbackIds, text \in ReplyTexts : send_reply(feedback_id, text)
    \/ get_unanswered_reviews
    \/ \E o \in Transport : make_request(o)

ApiSpec == ApiInit /\ [][ApiNext]_vars

\* session.request is given timeout=30 and asyncio.sleep returns: the
\* request in flight is answered, by a response or by an exception.
ApiFairSpec == ApiSpec /\ WF_vars(\E o \in Transport : make_request(o))

\* ------------------------------- wb_api.py: the calls that await nothing

\* The dict d with d[key] = value, and d without key.
With(d, key, value) == JDict((key :> value) @@ d.v)

Without(d, key) == JDict([k \in DOMAIN d.v \ {key} |-> d.v[k]])

\* `"true" if is_answered else "false"`, were it str(is_answered).
AnsweredTokenPython(is_answered) == PyStr(is_answered)

\* `"true" if is_answered else "false"`
AnsweredToken(is_answered) == IF Truthy(is_answered) THEN "true" ELSE "false"

\* get_unanswered_reviews: `params`, from the keyword arguments of the call
\* and the defaults of the signature.
FeedbackParams(kwargs) ==
    LET is_answered == Get(kwargs, "is_answered", JBool(FALSE))
        nmId == Get(kwargs, "nmId", JNull)
        order == Get(kwargs, "order", JStr("dateDesc"))
        params == [take |-> JInt(5000), skip |-> JInt(0), order |-> order]
        filtered == IF is_answered # JNull
                    THEN ("isAnswered" :> JStr(AnsweredToken(is_answered))) @@ params
                    ELSE params
    IN  JDict(IF nmId # JNull THEN ("nmId" :> nmId) @@ filtered ELSE filtered)

\* _make_request: `request_params`, without the None values of params and
\* with its bools as "true" and "false".
RequestParams(params) ==
    IF ~Truthy(params) THEN EmptyDict
    ELSE JDict([key \in {k \in DOMAIN params.v : params.v[k] # JNull} |->
                   IF params.v[key].t = "bool"
                   THEN JStr(Lower(PyStr(params.v[key])))
                   ELSE params.v[key]])

\* The keyword arguments get_unanswered_reviews is called with.
KwargChoices ==
    {JDict(a @@ n @@ o) :
        a \in {<<>>} \cup {("is_answered" :> v) : v \in {JBool(TRUE), JBool(FALSE), JNull}},
        n \in {<<>>} \cup {("nmId" :> v) : v \in {JNull, JInt(0), JInt(17)}},
        o \in {<<>>} \cup {("order" :> v) : v \in {JStr("dateAsc"), JStr("dateDesc")}}}

\* The values of the photoLinks field.
PhotoFields ==
    {JNull, JList(<<>>), JStr(""), JStr("[]"), JInt(5),
     JList(<<JDict([fullSize |-> JStr("A"), miniSize |-> JStr("B")])>>),
     JList(<<JDict([miniSize |-> JStr("B")])>>),
     JList(<<EmptyDict>>),
     JList(<<JDict([fullSize |-> JStr("A")]), JDict([miniSize |-> JStr("B")])>>),
     JList(<<JDict([fullSize |-> JStr("A")]), EmptyDict, JDict([miniSize |-> JStr("B")])>>),
     JList(<<JDict([fullSize |-> JNull, miniSize |-> JStr("B")])>>),
     JList(<<JDict([fullSize |-> JStr("A")]), JNull>>),
     JList(<<JNull>>),
     JList(<<JStr("A"), JStr("B")>>),
     JDict([fullSize |-> JStr("A")]),
     JStr("[\"A\", \"B\"]"),
     JStr("[{\"fullSize\": \"A\"}]"),
     JStr("\"A\""),
     JStr("<html>")}

\* The other fields of a raw review, each with the values it is given.
FieldChoices ==
    [id |-> {JInt(7), JNull},
     productValuation |-> {JStr("5"), JStr("abc"), JNull, JInt(0)},
     text |-> {JNull, JStr("")},
     pros |-> {JNull, JStr("Udobno")},
     cons |-> {JNull},
     isAnswered |-> {JNull, JBool(TRUE)},
     answer |-> {JNull, JStr("Spasibo"), JDict([text |-> JStr("Spasibo")]),
                 JDict([text |-> JNull]), EmptyDict},
     productDetails |-> {JNull, JStr("Chashka"), EmptyDict,
                         JDict([productName |-> JNull, nmId |-> JNull,
                                supplierArticle |-> JNull])},
     subjectName |-> {JNull},
     photoLinks |-> PhotoFields]

\* What normalize_review_fields and _extract_photo_links are handed: the
\* five-star review with one field given another value or left out, the
\* empty dict, and values that are no dict.
RawChoices ==
    {With(RawFive, key, value) : key \in {"photoLinks"}, value \in PhotoFields}
    \cup UNION {{With(RawFive, key, value) : value \in FieldChoices[key]} :
                  key \in DOMAIN FieldChoices}
    \cup {Without(RawFive, key) : key \in DOMAIN RawFive.v}
    \cup {RawFive, RawTwo, RawEmpty, RawBroken, EmptyDict}
    \cup {JNull, JStr(""), RawString, JList(<<>>), JList(<<RawFive>>), JInt(0), JInt(7)}

\* The calls that are followed.
Jobs ==
    {[fn |-> "get_unanswered_reviews", kwargs |-> k] : k \in KwargChoices}
    \cup {[fn |-> fn, review |-> r] :
              fn \in {"normalize_review_fields", "_extract_photo_links"}, r \in RawChoices}

\* get_unanswered_reviews up to its request: the query string of the request.
request_params ==
    /\ job.fn = "get_unanswered_reviews"
    /\ out = NoReturn
    /\ out' = RequestParams(FeedbackParams(job.kwargs))
    /\ UNCHANGED <<attrs, users, rows, pc, cur, snap, pos, marked, conv, man,
                   acks, failed, due, att, newIds, outs, got, wire, job, look, seen,
                   talk>>

\* normalize_review_fields returns a record or raises.
normalize_returns ==
    /\ job.fn = "normalize_review_fields"
    /\ out = NoReturn
    /\ \E r \in {normalize_review_fields(job.review)} :
          out' = IF r.raised THEN [t |-> "raised"] ELSE [t |-> "record", v |-> r.rec]
    /\ UNCHANGED <<attrs, users, rows, pc, cur, snap, pos, marked, conv, man,
                   acks, failed, due, att, newIds, outs, got, wire, job, look, seen,
                   talk>>

\* _extract_photo_links returns a list.
extract_returns ==
    /\ job.fn = "_extract_photo_links"
    /\ out = NoReturn
    /\ out' = JList(extract_photo_links(job.review))
    /\ UNCHANGED <<attrs, users, rows, pc, cur, snap, pos, marked, conv, man,
                   acks, failed, due, att, newIds, outs, got, wire, job, look, seen,
                   talk>>

PureInit ==
    /\ attrs = ReviewColumns
    /\ users \in {a \in AccountChoices :
                      \A f \in {"notifications_enabled", "auto_reply_enabled",
                                 "auto_reply_five_stars"} : a[1][f]}
    /\ rows = <<>>
    /\ pc = [s \in Sweeps |-> "idle"]
    /\ cur = [s \in Sweeps |-> 0]
    /\ snap = [s \in Sweeps |-> <<>>]
    /\ pos = [s \in Sweeps |-> 0]
    /\ marked = [s \in Sweeps |-> {}]
    /\ conv = [review_id |-> NoReview, generated_reply |-> ""]
    /\ man = [pc |-> "idle", feedback_id |-> NoReview, text |-> ""]
    /\ acks = {}
    /\ failed = {}
    /\ due = [s \in Sweeps |-> {}]
    /\ att = [s \in Sweeps |-> {}]
    /\ newIds = [s \in Sweeps |-> {}]
    /\ outs = [s \in Sweeps |-> <<>>]
    /\ got = NoListing
    /\ NoCall
    /\ job \in Jobs
    /\ out = NoReturn
    /\ look = NoLookup
    /\ seen = <<>>
    /\ NoTalk

PureNext ==
    \/ request_params
    \/ normalize_returns
    \/ extract_returns

PureSpec == PureInit /\ [][PureNext]_vars

\* ------------------------- reviews.py: get_unanswered_reviews(user_id)

\* The loop over raw_reviews of get_unanswered_reviews(user_id): [raised, v],
\* v the normalized reviews that have content, in order.  No try stands
\* inside the loop: what normalize_review_fields or the has_content test
\* raises leaves the loop.
RECURSIVE NormalizedReviews(_)
NormalizedReviews(raw_reviews) ==
    IF raw_reviews = <<>> THEN [raised |-> FALSE, v |-> <<>>]
    ELSE LET n == Normalized[raw_reviews[1]]
             rest == NormalizedReviews(Tail(raw_reviews))
         IN  IF n.raised \/ has_content(n.rec).raised \/ rest.raised
             THEN [raised |-> TRUE, v |-> <<>>]
             ELSE [raised |-> FALSE,
                   v |-> IF has_content(n.rec).v THEN <<n.rec>> \o rest.v ELSE rest.v]

\* The lists the remote API hands the function.
Fetches == SeqsUpTo({RawFive, RawTwo, RawEmpty, RawBroken, RawString}, MaxBatch)

\* get_unanswered_reviews(user_id) is called: it returns [] for an account
\* without credential, or runs up to the await of the fetch.
unanswered_reviews_of(user_id) ==
    /\ job = NoJob
    /\ job' = [fn |-> "reviews.get_unanswered_reviews", user_id |-> user_id,
               raw_reviews |-> <<>>]
    /\ out' = IF Truthy(users[user_id].wb_api_key) THEN NoReturn ELSE JList(<<>>)
    /\ UNCHANGED <<attrs, users, rows, pc, cur, snap, pos, marked, conv, man,
                   acks, failed, due, att, newIds, outs, got, wire, look, seen,
                   talk>>

\* The fetch returns raw_reviews: the loop, and the return of the list, or
\* of [] from `except Exception`.
FetchedForChat(raw_reviews) ==
    /\ job.fn = "reviews.get_unanswered_reviews"
    /\ out = NoReturn
    /\ job' = [job EXCEPT !.raw_reviews = raw_reviews]
    /\ \E r \in {NormalizedReviews(raw_reviews)} :
          out' = IF r.raised THEN JList(<<>>) ELSE JList(r.v)
    /\ UNCHANGED <<attrs, users, rows, pc, cur, snap, pos, marked, conv, man,
                   acks, failed, due, att, newIds, outs, got, wire, look, seen,
                   talk>>

FrontNext ==
    \/ \E user_id \in UserIds : unanswered_reviews_of(user_id)
    \/ \E raw_reviews \in Fetches : FetchedForChat(raw_reviews)

FrontSpec == Init /\ [][FrontNext]_vars


\* --------------------------------------- reviews.py: send_review_reply

\* A user_id no row of user_settings carries.
Stranger == 3

\* session.get(UserSettings, user_id) and `if not user or not user.wb_api_key`
Credentialed(user_id) ==
    user_id \in DOMAIN users /\ Truthy(users[user_id].wb_api_key)

\* What the function is called with.
ReplyTargets == {"", "r1", "r9"}
ReplyDrafts == {"", "Blagodarim"}

\* The rest of the function, were the result of send_reply not tested.
RepliedUntested(table, id, text, result, committed) ==
    IF id # 0 /\ ~committed THEN [rows |-> table, ret |-> JBool(FALSE)]
    ELSE [rows |-> IF id # 0 THEN MarkAnswered(table, {id}, text) ELSE table,
          ret |-> JBool(TRUE)]

\* send_review_reply from the return of send_reply on: `if result:` the row
\* found, if any, is set answered and committed, and True is returned whether
\* a row was found or not; a commit that raises ends in `except Exception`
\* and False, and the session's change is lost with it.
Replied(table, id, text, result, committed) ==
    IF ~result THEN [rows |-> table, ret |-> JBool(FALSE)]
    ELSE IF id # 0 /\ ~committed THEN [rows |-> table, ret |-> JBool(FALSE)]
    ELSE [rows |-> IF id # 0 THEN MarkAnswered(table, {id}, text) ELSE table,
          ret |-> JBool(TRUE)]

\* send_review_reply is called: it returns False for a missing account or
\* one without credential, and, through send_reply, for an empty argument;
\* else it runs up to the request of send_reply.
send_review_reply(feedback_id, text, user_id) ==
    /\ job = NoJob \/ out # NoReturn
    /\ \E asked \in {Credentialed(user_id) /\ ~SendRejected(feedback_id, text)} :
          /\ job' = [fn |-> "send_review_reply", feedback_id |-> feedback_id,
                     text |-> text, user_id |-> user_id,
                     requests |-> IF asked THEN 1 ELSE 0, result |-> JNull]
          /\ out' = IF asked THEN NoReturn ELSE JBool(FALSE)
    /\ UNCHANGED <<attrs, users, rows, pc, cur, snap, pos, marked, conv, man,
                   acks, failed, due, att, newIds, outs, got, wire, look, seen,
                   talk>>

\* send_reply returns `result`; `committed` is whether session.commit() goes
\* through (FALSE only for a commit that is tried).
ReviewReplySent(result, committed) ==
    /\ job.fn = "send_review_reply"
    /\ out = NoReturn
    /\ \E id \in {FirstRow(rows, job.feedback_id, job.user_id)} :
          /\ committed \/ (result /\ id # 0)
          /\ \E r \in {Replied(rows, id, job.text, result, committed)} :
                /\ rows' = r.rows
                /\ out' = r.ret
    /\ job' = [job EXCEPT !.result = JBool(result)]
    /\ UNCHANGED <<attrs, users, pc, cur, snap, pos, marked, conv, man,
                   acks, failed, due, att, newIds, outs, got, wire, look, seen,
                   talk>>

ReplyNext ==
    \/ \E feedback_id \in ReplyTargets, text \in ReplyDrafts,
          user_id \in UserIds \cup {Stranger} :
              send_review_reply(feedback_id, text, user_id)
    \/ \E result \in BOOLEAN, committed \in BOOLEAN : ReviewReplySent(result, committed)

ReplySpec == Init /\ [][ReplyNext]_vars


\* ------------------------------------------- wb_api.py: get_review_by_id

\* What the remote API lists as one review: the five-star review, the same
\* review answered, one whose id is a number, one without id, the two-star
\* review.
PageItems ==
    {RawFive,
     With(With(RawFive, "isAnswered", JBool(TRUE)), "answer", JDict([text |-> JStr("Spasibo")])),
     With(RawFive, "id", JInt(7)),
     Without(RawFive, "id"),
     RawTwo}

\* What get_unanswered_reviews returns: a list, [] for an error.
Pages == SeqsUpTo(PageItems, MaxBatch)

\* The ids get_review_by_id is asked for.
LookupIds == {"r1", "7", "r9", ""}

\* `all_reviews`, were the answered page left out.
AllReviewsUnanswered(pages) == pages[1]

\* `all_reviews = all_reviews_1 + all_reviews_2`
AllReviews(pages) == pages[1] \o pages[2]

\* `for review in all_reviews: if str(review.get("id", "")) == feedback_id:
\* return review`, then `return None`; an item that is no dict raises
\* AttributeError into `except Exception`, which returns None.
RECURSIVE Scan(_, _)
Scan(all_reviews, feedback_id) ==
    IF all_reviews = <<>> THEN JNull
    ELSE IF Head(all_reviews).t # "dict" THEN JNull
    ELSE IF PyStr(Get(Head(all_reviews), "id", JStr(""))) = feedback_id THEN Head(all_reviews)
    ELSE Scan(Tail(all_reviews), feedback_id)

\* get_review_by_id is called: up to the await of the first fetch.
get_review_by_id(feedback_id) ==
    /\ look.pc = "idle"
    /\ out = NoReturn
    /\ look' = [pc |-> "unanswered", feedback_id |-> feedback_id,
                asked |-> <<JBool(FALSE)>>, pages |-> <<>>]
    /\ UNCHANGED <<attrs, users, rows, pc, cur, snap, pos, marked, conv, man,
                   acks, failed, due, att, newIds, outs, got, wire, job, out, seen,
                   talk>>

\* The first fetch returns: up to the await of the second.
UnansweredReturn(page) ==
    /\ look.pc = "unanswered"
    /\ look' = [look EXCEPT !.pc = "answered", !.asked = Append(@, JBool(TRUE)),
                            !.pages = Append(@, page)]
    /\ UNCHANGED <<attrs, users, rows, pc, cur, snap, pos, marked, conv, man,
                   acks, failed, due, att, newIds, outs, got, wire, job, out, seen,
                   talk>>

\* The second fetch returns: the scan, and the return of get_review_by_id.
AnsweredReturn(page) ==
    /\ look.pc = "answered"
    /\ look' = [look EXCEPT !.pc = "done", !.pages = Append(@, page)]
    /\ out' = Scan(AllReviews(Append(look.pages, page)), look.feedback_id)
    /\ UNCHANGED <<attrs, users, rows, pc, cur, snap, pos, marked, conv, man,
                   acks, failed, due, att, newIds, outs, got, wire, job, seen,
                   talk>>

LookupInit ==
    /\ attrs = ReviewColumns
    /\ users \in {a \in AccountChoices :
                      \A f \in {"notifications_enabled", "auto_reply_enabled",
                                 "auto_reply_five_stars"} : a[1][f]}
    /\ rows = <<>>
    /\ pc = [s \in Sweeps |-> "idle"]
    /\ cur = [s \in Sweeps |-> 0]
    /\ snap = [s \in Sweeps |-> <<>>]
    /\ pos = [s \in Sweeps |-> 0]
    /\ marked = [s \in Sweeps |-> {}]
    /\ conv = [review_id |-> NoReview, generated_reply |-> ""]
    /\ man = [pc |-> "idle", feedback_id |-> NoReview, text |-> ""]
    /\ acks = {}
    /\ failed = {}
    /\ due = [s \in Sweeps |-> {}]
    /\ att = [s \in Sweeps |-> {}]
    /\ newIds = [s \in Sweeps |-> {}]
    /\ outs = [s \in Sweeps |-> <<>>]
    /\ got = NoListing
    /\ NoCall
    /\ NoSide
    /\ NoTalk

LookupNext ==
    \/ \E feedback_id \in LookupIds : get_review_by_id(feedback_id)
    \/ \E page \in Pages : UnansweredReturn(page)
    \/ \E page \in Pages : AnsweredReturn(page)

LookupSpec == LookupInit /\ [][LookupNext]_vars

\* ------------------------------- reviews.py: the list of the chat's reviews

\* What a session other than the one that set them sees of the rows a pass
\* has set answered and not committed, were the store to show them.
VisibleDirty(table, set, text) == MarkAnswered(table, set, text)

\* What a session opened by `with Session() as session` reads: the table as
\* committed; the attributes another session has set and not committed stay
\* in that session.
Visible(table, set, text) == table

\* session.query(Review).filter(Review.user_id == user_id,
\* Review.is_answered == False).order_by(Review.id.desc()).all()
QueryUnanswered(table, user_id) ==
    LET ids == UnansweredIds(table, user_id)
    IN  [k \in 1..Len(ids) |->
            [id |-> ids[Len(ids) + 1 - k],
             is_answered |-> table[ids[Len(ids) + 1 - k]].is_answered,
             response |-> table[ids[Len(ids) + 1 - k]].response]]

\* reviews_list_handler, its own sweep over, reads the unanswered reviews
\* of the talker; the scheduler's sweep may be suspended in any of its awaits.
reviews_list_handler ==
    /\ pc["list"] = "idle"
    /\ seen' = QueryUnanswered(
                   Visible(rows, UNION {marked[s] : s \in Sweeps},
                           ComposeReply(users[Talker])), Talker)
    /\ UNCHANGED <<attrs, users, rows, pc, cur, snap, pos, marked, conv, man,
                   acks, failed, due, att, newIds, outs, got, wire, job, out, look,
                   talk>>

\* bot.db holds the two unanswered five-star reviews and the talker has
\* the auto-reply on.
ReadInit ==
    /\ Init
    /\ rows # <<>>
    /\ users[Talker].auto_reply_enabled
    /\ users[Talker].auto_reply_five_stars

ReadNext ==
    \/ \E s \in Sweeps : SweepStart(s)
    \/ \E s \in Sweeps : pc[s] = "fetch" /\ \E raw_reviews \in Batches : FetchReturn(s, raw_reviews)
    \/ \E s \in Sweeps : NotifyReturn(s)
    \/ \E s \in Sweeps, success \in BOOLEAN : ReplyReturn(s, success)
    \/ reviews_list_handler

ReadSpec == ReadInit /\ [][ReadNext]_vars

\* ---------------------------- reviews.py: the conversation, handler by handler

\* The handlers of the talker's chat are followed one after another: a
\* callback or a message is handled to its end, or to the await of a remote
\* call, before the next one arrives, and a button that is pressed belongs
\* to the bot's latest message.  Of the FSM data, page and has_photo, which
\* say how the list message is redrawn, and arguments and solution, which
\* build_prompt alone reads, are not followed.

\* What the talker types as arguments and as solution.
ArgumentTexts == {"kachestvo"}
SolutionTexts == {"zamena"}

\* generate_reply returns one of three texts, chosen by the prompt that
\* build_prompt makes of the review.
GeneratedTexts == {"Spasibo za dostoinstva", "Zhal chto problemy", "Spasibo za otzyv"}

\* build_prompt raises.
PromptError == ""

\* What get_review_by_id and _extract_photo_links give the detail view:
\* no review or no photo, one link, two links.
PhotoLookups == {<<>>, <<JStr("A")>>, <<JStr("A"), JStr("B")>>}

Message(kind, review_id) == [kind |-> kind, review_id |-> review_id, alert |-> ""]

\* The keyboards whose back button is review_<id>.
BackKinds ==
    {"ask_reply", "ask_arguments", "ask_solution", "generated",
     "generation_failed", "preview", "send_failed"}

\* A button review_<review_id> is in front of the talker: in the list as
\* the latest query drew it, or as the back button of the latest message.
Offered(review_id) ==
    \/ \E k \in 1..Len(seen) : rows[seen[k].id].source_api_id = review_id
    \/ shown.kind \in BackKinds /\ shown.review_id = review_id

\* No handler of the chat is suspended in a remote call.
ChatIdle == view.pc = "idle" /\ man.pc = "idle"

\* session.query(Review).filter_by(source_api_id=review_id, user_id=user_id,
\* is_answered=False).first(), were is_answered left out of the filter.
DetailRowAnyState(table, review_id, user_id) == FirstRow(table, review_id, user_id)

\* session.query(Review).filter_by(source_api_id=review_id, user_id=user_id,
\* is_answered=False).first(): the id of the row, 0 for None.
DetailRow(table, review_id, user_id) ==
    LET hits == {i \in 1..Len(table) :
                    /\ table[i].source_api_id = review_id
                    /\ table[i].user_id = user_id
                    /\ ~table[i].is_answered}
    IN  IF hits = {} THEN 0 ELSE CHOOSE i \in hits : \A j \in hits : i <= j

\* The UPDATE of the detail view's commit, were it to write the object as
\* the session loaded it.
StoreLoaded(table, id, text) ==
    [table EXCEPT ![id].photo_urls = text, ![id].is_answered = FALSE]

\* `review.photo_urls = json.dumps(photo_urls); session.commit()`: the
\* UPDATE writes the attribute that was set.
StorePhotos(table, id, text) == [table EXCEPT ![id].photo_urls = text]

\* The detail view from its keyboard on: the message is sent, and
\* state.update_data(review_id=review_id, regeneration_count=0, ...) follows
\* it; a send that raises ends in `except Exception` and the error message.
Show(review_id, delivered) ==
    IF delivered
    THEN /\ shown' = Message("detail", review_id)
         /\ chat' = [chat EXCEPT !.review_id = review_id, !.regeneration_count = 0]
         /\ regens' = 0
    ELSE /\ shown' = [Message("error", "") EXCEPT !.alert = "error"]
         /\ UNCHANGED <<chat, regens>>

\* review_detail_handler is called with review_<review_id>: it runs to its
\* end or to the await of get_review_by_id.
OpenDetail(review_id, delivered) ==
    /\ ChatIdle
    /\ Offered(review_id)
    /\ \E id \in {DetailRow(rows, review_id, Talker)} :
          IF id = 0
          THEN /\ delivered
               /\ shown' = Message("not_found", review_id)
               /\ UNCHANGED <<chat, view, regens>>
          ELSE IF ~(DetailReads \subseteq attrs)
          THEN /\ delivered
               /\ shown' = [Message("error", "") EXCEPT !.alert = "error"]
               /\ UNCHANGED <<chat, view, regens>>
          ELSE IF /\ Truthy(rows[id].photo_url)
                  /\ rows[id].photo_urls # ""
                  /\ json_loads(rows[id].photo_urls).ok
                  /\ json_loads(rows[id].photo_urls).v = JList(<<>>)
                  /\ Credentialed(Talker)
          THEN /\ delivered
               /\ view' = [pc |-> "lookup", review_id |-> review_id, id |-> id]
               /\ UNCHANGED <<chat, shown, regens>>
          ELSE /\ Show(review_id, delivered)
               /\ UNCHANGED view
    /\ UNCHANGED <<attrs, users, rows, pc, cur, snap, pos, marked, conv, man,
                   acks, failed, due, att, newIds, outs, got, wire, side>>

\* get_review_by_id returns to the detail view: links that were found are
\* stored in the row and committed (a commit that raises is logged), and
\* the view is sent.
DetailLookupReturn(photo_urls, committed, delivered) ==
    /\ view.pc = "lookup"
    /\ committed \/ photo_urls # <<>>
    /\ rows' = IF photo_urls # <<>> /\ committed
               THEN StorePhotos(rows, view.id, json_dumps(photo_urls))
               ELSE rows
    /\ Show(view.review_id, delivered)
    /\ view' = NoView
    /\ UNCHANGED <<attrs, users, pc, cur, snap, pos, marked, conv, man,
                   acks, failed, due, att, newIds, outs, got, wire, side>>


\* start_manual_reply, called with manual_<review_id>.
start_manual_reply(review_id) ==
    /\ ChatIdle
    /\ shown.kind = "detail" /\ shown.review_id = review_id
    /\ chat' = [chat EXCEPT !.review_id = review_id, !.state = "waiting_for_custom_reply"]
    /\ shown' = Message("ask_reply", review_id)
    /\ UNCHANGED <<view, regens>>
    /\ UNCHANGED <<attrs, users, rows, pc, cur, snap, pos, marked, conv, man,
                   acks, failed, due, att, newIds, outs, got, wire, side>>

\* start_generation_flow, called with generate_<review_id>.
start_generation_flow(review_id) ==
    /\ ChatIdle
    /\ shown.kind = "detail" /\ shown.review_id = review_id
    /\ chat' = [chat EXCEPT !.review_id = review_id, !.state = "waiting_for_arguments"]
    /\ shown' = Message("ask_arguments", review_id)
    /\ UNCHANGED <<view, regens>>
    /\ UNCHANGED <<attrs, users, rows, pc, cur, snap, pos, marked, conv, man,
                   acks, failed, due, att, newIds, outs, got, wire, side>>

\* process_review_arguments: a text message in waiting_for_arguments.
process_review_arguments(text) ==
    /\ ChatIdle
    /\ chat.state = "waiting_for_arguments"
    /\ chat' = [chat EXCEPT !.state = "waiting_for_solution"]
    /\ shown' = Message("ask_solution", chat.review_id)
    /\ UNCHANGED <<view, regens>>
    /\ UNCHANGED <<attrs, users, rows, pc, cur, snap, pos, marked, conv, man,
                   acks, failed, due, att, newIds, outs, got, wire, side>>

\* process_generation with the FSM data `data`: generate_reply returns
\* `reply`, which is kept as generated_reply and shown with the buttons
\* regenerate, write_own, send_reply and review_<id>; a missing review_id,
\* a review that is not stored and a build_prompt that raises end in
\* `except Exception` and the error message.
process_generation(table, data, reply) ==
    IF \/ data.review_id = ""
       \/ FirstRow(table, data.review_id, Talker) = 0
       \/ reply = PromptError
    THEN [chat |-> data, shown |-> Message("generation_failed", data.review_id),
          made |-> FALSE]
    ELSE [chat |-> [data EXCEPT !.is_regenerate = FALSE, !.generated_reply = reply],
          shown |-> Message("generated", data.review_id), made |-> TRUE]

\* handle_skip_solution: skip_solution pressed in waiting_for_solution.
handle_skip_solution(reply) ==
    /\ ChatIdle
    /\ chat.state = "waiting_for_solution"
    /\ shown.kind = "ask_solution"
    /\ \E g \in {process_generation(rows, chat, reply)} :
          /\ chat' = g.chat
          /\ shown' = g.shown
    /\ UNCHANGED <<view, regens>>
    /\ UNCHANGED <<attrs, users, rows, pc, cur, snap, pos, marked, conv, man,
                   acks, failed, due, att, newIds, outs, got, wire, side>>

\* process_solution: a text message in waiting_for_solution, the state the
\* chat stays in after the reply is generated.
process_solution(text, reply) ==
    /\ ChatIdle
    /\ chat.state = "waiting_for_solution"
    /\ \E g \in {process_generation(rows, chat, reply)} :
          /\ chat' = g.chat
          /\ shown' = g.shown
    /\ UNCHANGED <<view, regens>>
    /\ UNCHANGED <<attrs, users, rows, pc, cur, snap, pos, marked, conv, man,
                   acks, failed, due, att, newIds, outs, got, wire, side>>

\* `if count >= 3:`, were the count let through once more.
LimitPassed(count) == count > 3

\* `if count >= 3:` of regenerate_reply
LimitReached(count) == count >= 3

\* regenerate_reply: at the limit the alert is shown and nothing else is
\* done; below it the count is raised, is_regenerate is set and
\* process_generation runs.
regenerate_reply(reply) ==
    /\ ChatIdle
    /\ shown.kind = "generated"
    /\ IF LimitReached(chat.regeneration_count)
       THEN /\ reply = PromptError
            /\ shown' = [shown EXCEPT !.alert = "limit"]
            /\ UNCHANGED <<chat, regens>>
       ELSE \E g \in {process_generation(
                          rows, [chat EXCEPT !.regeneration_count = @ + 1,
                                             !.is_regenerate = TRUE], reply)} :
               /\ chat' = g.chat
               /\ shown' = g.shown
               /\ regens' = IF g.made THEN regens + 1 ELSE regens
    /\ UNCHANGED view
    /\ UNCHANGED <<attrs, users, rows, pc, cur, snap, pos, marked, conv, man,
                   acks, failed, due, att, newIds, outs, got, wire, side>>

\* write_own_callback: write_own pressed under a generated reply.
write_own_callback ==
    /\ ChatIdle
    /\ shown.kind = "generated"
    /\ chat' = [chat EXCEPT !.state = "waiting_for_custom_reply"]
    /\ shown' = Message("ask_reply", chat.review_id)
    /\ UNCHANGED <<view, regens>>
    /\ UNCHANGED <<attrs, users, rows, pc, cur, snap, pos, marked, conv, man,
                   acks, failed, due, att, newIds, outs, got, wire, side>>

\* process_custom_reply: a text message in waiting_for_custom_reply is
\* kept as generated_reply and shown with send_reply and review_<id>.
CustomReplyTyped(text) ==
    /\ ChatIdle
    /\ chat.state = "waiting_for_custom_reply"
    /\ IF chat.review_id = ""
       THEN /\ shown' = Message("error", "")
            /\ UNCHANGED chat
       ELSE /\ chat' = [chat EXCEPT !.generated_reply = text]
            /\ shown' = Message("preview", chat.review_id)
    /\ UNCHANGED <<view, regens>>
    /\ UNCHANGED <<attrs, users, rows, pc, cur, snap, pos, marked, conv, man,
                   acks, failed, due, att, newIds, outs, got, wire, side>>

\* send_reply_handler, up to the await of send_reply inside
\* send_review_reply: a missing review_id or text ends in the error message.
SendPressed ==
    /\ ChatIdle
    /\ shown.kind \in {"generated", "preview", "send_failed"}
    /\ IF chat.review_id = "" \/ chat.generated_reply = ""
       THEN /\ shown' = Message("error", "")
            /\ UNCHANGED man
       ELSE IF ~Credentialed(Talker)
       THEN /\ shown' = Message("send_failed", chat.review_id)
            /\ UNCHANGED man
       ELSE /\ man' = [pc |-> "send", feedback_id |-> chat.review_id,
                       text |-> chat.generated_reply]
            /\ UNCHANGED shown
    /\ UNCHANGED <<chat, view, regens>>
    /\ UNCHANGED <<attrs, users, rows, pc, cur, snap, pos, marked, conv,
                   acks, failed, due, att, newIds, outs, got, wire, side>>

\* send_reply returns `result` to send_review_reply, which returns to
\* send_reply_handler: on True state.clear() and the success message, on
\* False the message with the retry button.
SendReturned(result, committed) ==
    /\ man.pc = "send"
    /\ view.pc = "idle"
    /\ \E id \in {FirstRow(rows, man.feedback_id, Talker)} :
          /\ committed \/ (result /\ id # 0)
          /\ \E r \in {Replied(rows, id, man.text, result, committed)} :
                /\ rows' = r.rows
                /\ chat' = IF r.ret = JBool(TRUE) THEN NoChat ELSE chat
                /\ shown' = IF r.ret = JBool(TRUE) THEN Message("sent", "")
                            ELSE Message("send_failed", chat.review_id)
    /\ man' = [pc |-> "idle", feedback_id |-> NoReview, text |-> ""]
    /\ UNCHANGED <<view, regens>>
    /\ UNCHANGED <<attrs, users, pc, cur, snap, pos, marked, conv,
                   acks, failed, due, att, newIds, outs, got, wire, side>>

\* The query of the list handler.
ListQuery ==
    QueryUnanswered(Visible(rows, UNION {marked[s] : s \in Sweeps},
                            ComposeReply(users[Talker])), Talker)

\* pending_reviews is pressed, or the menu entry of the list: the list is
\* drawn from the query of reviews_list_handler.  The sweep the handler
\* awaits first is a sweep like the scheduler's.
pending_reviews ==
    /\ ChatIdle
    /\ seen' = ListQuery
    /\ shown' = Message("list", "")
    /\ UNCHANGED <<chat, view, regens>>
    /\ UNCHANGED <<attrs, users, rows, pc, cur, snap, pos, marked, conv, man,
                   acks, failed, due, att, newIds, outs, got, wire, job, out, look>>

\* back_to_reviews_handler: state.clear(), then the list handler.  The
\* button is one of the keyboard under the messages of the detail view
\* that show no review.
back_to_reviews_handler ==
    /\ ChatIdle
    /\ shown.kind \in {"not_found", "error"}
    /\ chat' = NoChat
    /\ seen' = ListQuery
    /\ shown' = Message("list", "")
    /\ UNCHANGED <<view, regens>>
    /\ UNCHANGED <<attrs, users, rows, pc, cur, snap, pos, marked, conv, man,
                   acks, failed, due, att, newIds, outs, got, wire, job, out, look>>

\* What the remote API lists while the conversation goes on: nothing, or
\* the review r1 that is stored.  No row is added then, so the sweep never
\* awaits a notification; StoreSpec follows the sweep that adds rows.
ChatListings == {<<>>, <<RawFive>>}

\* bot.db when the conversation starts: the two unanswered five-star
\* reviews of the talker, and r1 as account 2 stored it while it held a
\* credential.
ChatTables ==
    {<<LegacyRow("r0", JStr("")), LegacyRow("r1", JStr("ne ukazany")),
       [LegacyRow("r1", JStr("")) EXCEPT !.user_id = 2]>>}

ChatInit ==
    /\ attrs \in {ReviewColumns, ReviewColumns \cup MigratedColumns}
    /\ users \in {a \in AccountChoices :
                      a[Talker].notifications_enabled /\ a[Talker].auto_reply_five_stars}
    /\ rows \in ChatTables
    /\ pc = [s \in Sweeps |-> "idle"]
    /\ cur = [s \in Sweeps |-> 0]
    /\ snap = [s \in Sweeps |-> <<>>]
    /\ pos = [s \in Sweeps |-> 0]
    /\ marked = [s \in Sweeps |-> {}]
    /\ conv = [review_id |-> NoReview, generated_reply |-> ""]
    /\ man = [pc |-> "idle", feedback_id |-> NoReview, text |-> ""]
    /\ acks = {}
    /\ failed = {}
    /\ due = [s \in Sweeps |-> {}]
    /\ att = [s \in Sweeps |-> {}]
    /\ newIds = [s \in Sweeps |-> {}]
    /\ outs = [s \in Sweeps |-> <<>>]
    /\ got = NoListing
    /\ NoCall
    /\ NoSide
    /\ NoTalk

ChatNext ==
    \/ SweepStart(Scheduled)
    \/ pc[Scheduled] = "fetch" /\ \E raw_reviews \in ChatListings : FetchReturn(Scheduled, raw_reviews)
    \/ \E success \in BOOLEAN : ReplyReturn(Scheduled, success)
    \/ pending_reviews
    \/ \E review_id \in ReviewIds, delivered \in BOOLEAN : OpenDetail(review_id, delivered)
    \/ \E photo_urls \in PhotoLookups, committed \in BOOLEAN, delivered \in BOOLEAN :
          DetailLookupReturn(photo_urls, committed, delivered)
    \/ \E review_id \in ReviewIds : start_manual_reply(review_id)
    \/ \E review_id \in ReviewIds : start_generation_flow(review_id)
    \/ \E text \in ArgumentTexts : process_review_arguments(text)
    \/ \E reply \in GeneratedTexts \cup {PromptError} : handle_skip_solution(reply)
    \/ \E text \in SolutionTexts, reply \in GeneratedTexts \cup {PromptError} :
          process_solution(text, reply)
    \/ \E reply \in GeneratedTexts \cup {PromptError} : regenerate_reply(reply)
    \/ write_own_callback
    \/ \E text \in ManualTexts : CustomReplyTyped(text)
    \/ SendPressed
    \/ \E result \in BOOLEAN, committed \in BOOLEAN : SendReturned(result, committed)
    \/ back_to_reviews_handler

ChatSpec == ChatInit /\ [][ChatNext]_vars


\* ------------------------------------------- the operations on the store

\* What the remote API lists: nothing, the review that is stored, one that
\* is not.
StoreListings == {<<>>, <<RawFive>>, <<RawTwo>>}

\* The operations that write to the reviews table, and the steps of the
\* chat that lead to them: the sweep with its inserts and its auto-reply
\* pass, the detail view with the photo links it stores, the manual reply.
StoreNext ==
    \/ SweepStart(Scheduled)
    \/ pc[Scheduled] = "fetch" /\ \E raw_reviews \in StoreListings : FetchReturn(Scheduled, raw_reviews)
    \/ NotifyReturn(Scheduled)
    \/ \E success \in BOOLEAN : ReplyReturn(Scheduled, success)
    \/ pending_reviews
    \/ \E review_id \in ReviewIds, delivered \in BOOLEAN : OpenDetail(review_id, delivered)
    \/ \E photo_urls \in PhotoLookups, committed \in BOOLEAN, delivered \in BOOLEAN :
          DetailLookupReturn(photo_urls, committed, delivered)
    \/ \E review_id \in ReviewIds : start_manual_reply(review_id)
    \/ \E text \in ManualTexts : CustomReplyTyped(text)
    \/ SendPressed
    \/ \E result \in BOOLEAN, committed \in BOOLEAN : SendReturned(result, committed)

StoreSpec == ChatInit /\ [][StoreNext]_vars


\* ------------------------------------------------------------ properties

Range(q) == {q[i] : i \in 1..Len(q)}

\* The mapped class is the one models.py declares.
SourceTree == attrs = ReviewColumns

\* A text field that is blank: absent, empty, or white space only.
Blank(x) == ~Truthy(x) \/ (x.t = "str" /\ Strip(x.v) = "")

\* A text field that is blank or the placeholder, whatever its case.
BlankOrPlaceholder(x) == Blank(x) \/ (x.t = "str" /\ Lower(x.v) = Placeholder)

\* The reply text process_auto_replies composes for the account of a row.
Composed(i) == JStr(ComposeReply(users[rows[i].user_id]))

\* In this step the sweep s submits a reply for the row i.
AutoSubmits(s, i) ==
    /\ pc'[s] = "reply"
    /\ snap'[s][pos'[s]] = i
    /\ pc[s] # "reply" \/ pos'[s] # pos[s]

\* In this step send_review_reply submits a reply for the row i.
ManualSubmits(i) ==
    /\ man.pc = "idle"
    /\ man'.pc = "send"
    /\ FirstRow(rows, man'.feedback_id, Talker) = i

\* C1: in every reachable state, whatever the interleaving of sweeps and
\* manual replies, no two rows of the reviews table share the pair
\* (source_api_id, user_id).
C1_UniquePair ==
    \A i, j \in 1..Len(rows) :
        (rows[i].source_api_id = rows[j].source_api_id /\ rows[i].user_id = rows[j].user_id)
            => i = j

\* Both sweeps are in the pass of the same account, every row of the table
\* was added by one of them, and the later one met a row of the earlier.
C1_OverlappingSweeps ==
    /\ pc["sched"] = "notify" /\ pc["list"] = "notify"
    /\ cur["sched"] = cur["list"]
    /\ newIds["sched"] # {} /\ newIds["list"] # {}
    /\ newIds["sched"] \cup newIds["list"] = 1..Len(rows)
    /\ "exists" \in Range(outs["list"])

\* C2: check_new_reviews run twice in succession on the same raw reviews
\* adds no row the second time: whenever a sweep awaits its fetch, for each
\* list the fetch can return, the loop run on the table the first run
\* commits adds nothing.
C2_SecondRunAddsNothing ==
    \A s \in Sweeps :
        pc[s] = "fetch"
            => \A raw_reviews \in Batches :
                  \A first \in {AddedRows(attrs, rows, <<>>, raw_reviews, cur[s])} :
                      AddedRows(attrs,
                                IF Len(first) > 0 THEN CommitRows(rows, first) ELSE rows,
                                <<>>, raw_reviews, cur[s]) = <<>>

\* One sweep has added two rows and awaits its notification; the other
\* awaits its fetch for the same account.
C2_SecondRunPending ==
    /\ pc["sched"] = "notify"
    /\ outs["sched"] = <<"added", "added">>
    /\ Cardinality(newIds["sched"]) = 2
    /\ pc["list"] = "fetch"
    /\ cur["list"] = cur["sched"]

\* C3: process_auto_replies sets is_answered and the composed response on a
\* row only if send_reply returned True for it: a row a sweep has marked, or
\* that holds the composed text, had a True; a row answered without one
\* holds the text of a manual reply.
C3_MarkedOnlyOnSuccess ==
    /\ \A s \in Sweeps : marked[s] \subseteq acks
    /\ \A i \in 1..Len(rows) : rows[i].response = Composed(i) => i \in acks
    /\ \A i \in 1..Len(rows) :
          rows[i].is_answered /\ i \notin acks
              => rows[i].response.t = "str" /\ rows[i].response.v \in ManualTexts

\* One row was answered after a True, another is unanswered after a False.
C3_OneSentOneFailed ==
    \E i, j \in 1..Len(rows) :
        /\ i \in acks /\ rows[i].is_answered /\ rows[i].response = Composed(i)
        /\ j \in failed \ acks /\ ~rows[j].is_answered /\ rows[j].response = JNull
        /\ \A s \in Sweeps : pc[s] = "idle"

\* C4: when a sweep leaves an account, every row whose send_reply had failed
\* before the sweep started, and that is still unanswered and matches the
\* policy of the account, has been submitted again by this sweep.
C4_FailedSendRetried ==
    [][\A s \in Sweeps :
          (SourceTree /\ cur[s] # 0 /\ cur'[s] # cur[s])
              => \A id \in due[s] :
                    (/\ rows[id].user_id = cur[s]
                     /\ ~rows'[id].is_answered
                     /\ Truthy(users[cur[s]].wb_api_key)
                     /\ users[cur[s]].auto_reply_enabled
                     /\ users[cur[s]].auto_reply_five_stars
                     /\ rows[id].stars = 5
                     /\ BlankOrPlaceholder(rows[id].cons))
                        => id \in att[s]]_vars

\* C5: once a row has is_answered set, no step changes its response or
\* submits another reply for it, be it a sweep or send_review_reply.
C5_AnsweredOnce ==
    [][SourceTree =>
          \A i \in 1..Len(rows) :
              rows[i].is_answered
                  => /\ rows'[i].response = rows[i].response
                     /\ \A s \in Sweeps : ~AutoSubmits(s, i)
                     /\ ~ManualSubmits(i)]_vars

\* A stored row without content: comment blank, pros and cons blank or the
\* placeholder, no photo.
NoContent(row) ==
    /\ Blank(row.comment)
    /\ BlankOrPlaceholder(row.pros)
    /\ BlankOrPlaceholder(row.cons)
    /\ row.photo_url # JStr("1")

\* C6: the reviews table never holds a row whose comment is blank, whose
\* pros and cons are blank or the placeholder in any case, and that has no
\* photo: a sweep adds no such review.
C6_NoEmptyRow == \A i \in 1..Len(rows) : ~NoContent(rows[i])

\* A sweep met a review without content next to one it added.
C6_EmptySkipped ==
    \E s \in Sweeps :
        /\ pc[s] = "notify"
        /\ "empty" \in Range(outs[s])
        /\ Cardinality(newIds[s]) = 1

\* C7: when a sweep's loop is over, each raw review of it that normalizes
\* without error, has content, and had no row with its (source_api_id,
\* user_id), has exactly one row with that pair, holding its normalized
\* stars, comment, pros and cons.
C7_ContentReviewInserted ==
    [][\A s \in Sweeps :
          pc[s] = "fetch"
              => \A raw_reviews \in Batches :
                    FetchReturn(s, raw_reviews)
                        => \A k \in 1..Len(raw_reviews) :
                              LET n == normalize_review_fields(raw_reviews[k])
                                  hits == {i \in 1..Len(rows') :
                                              /\ rows'[i].source_api_id = n.rec.source_api_id
                                              /\ rows'[i].user_id = cur[s]}
                              IN  (/\ ~n.raised
                                   /\ ~(/\ Blank(n.rec.comment)
                                        /\ BlankOrPlaceholder(n.rec.pros)
                                        /\ BlankOrPlaceholder(n.rec.cons)
                                        /\ ~n.rec.photo_url)
                                   /\ ~\E i \in 1..Len(rows) :
                                          /\ rows[i].source_api_id = n.rec.source_api_id
                                          /\ rows[i].user_id = cur[s])
                                      => /\ Cardinality(hits) = 1
                                         /\ \A i \in hits :
                                               /\ rows'[i].stars = n.rec.stars
                                               /\ rows'[i].comment = n.rec.comment
                                               /\ rows'[i].pros = n.rec.pros
                                               /\ rows'[i].cons = n.rec.cons]_vars

\* C8: a sweep submits an automatic reply only for a row whose is_answered
\* is false in the table at the time.
C8_SendsOnlyUnanswered ==
    [][SourceTree =>
          \A s \in Sweeps, i \in 1..Len(rows') :
              AutoSubmits(s, i) => ~rows'[i].is_answered]_vars

\* C9: a sweep submits an automatic reply for a row only if the account has
\* auto_reply_enabled and auto_reply_five_stars, the row has five stars, and
\* its cons is blank or the placeholder in any case; so no two-star row is
\* ever answered by a sweep.
C9_PolicyOnly ==
    /\ \A s \in Sweeps : \A i \in att[s] :
          /\ users[cur[s]].auto_reply_enabled
          /\ users[cur[s]].auto_reply_five_stars
          /\ rows[i].stars = 5
          /\ BlankOrPlaceholder(rows[i].cons)
    /\ \A i \in acks \cup failed :
          /\ users[rows[i].user_id].auto_reply_enabled
          /\ users[rows[i].user_id].auto_reply_five_stars
          /\ rows[i].stars = 5
          /\ BlankOrPlaceholder(rows[i].cons)
    /\ \A i \in 1..Len(rows) : rows[i].stars = 2 => rows[i].response # Composed(i)

\* A sweep awaits send_reply for a five-star row while the table holds a
\* two-star row with a cons, unanswered.
C9_FiveStarSubmitted ==
    \E s \in Sweeps, j \in 1..Len(rows) :
        /\ pc[s] = "reply"
        /\ rows[snap[s][pos[s]]].stars = 5
        /\ rows[j].stars = 2 /\ ~Blank(rows[j].cons) /\ ~rows[j].is_answered
        /\ j \in Range(snap[s]) /\ j < snap[s][pos[s]]

\* C10: within the pass of an account the rows are committed before the
\* notification, and the notification precedes the auto-reply: while the
\* sweep awaits the notification the rows it added are in the table and it
\* has submitted no reply; while it awaits send_reply each row it added is
\* among the reviews process_auto_replies has read, or is answered.
C10_InsertNotifyReply ==
    \A s \in Sweeps :
        /\ pc[s] = "notify"
              => /\ newIds[s] # {}
                 /\ \A i \in newIds[s] : i \in 1..Len(rows) /\ rows[i].user_id = cur[s]
                 /\ att[s] = {} /\ marked[s] = {} /\ snap[s] = <<>>
        /\ pc[s] = "reply"
              => \A i \in newIds[s] :
                    /\ i \in 1..Len(rows)
                    /\ i \in Range(snap[s]) \/ rows[i].is_answered

\* After the notification of a pass, the sweep awaits send_reply for a row
\* the same pass added.
C10_ReplyToNewRow ==
    \E s \in Sweeps :
        /\ pc[s] = "reply"
        /\ users[cur[s]].notifications_enabled
        /\ snap[s][pos[s]] \in newIds[s]

\* ---------------------------------------------- properties of one sweep

\* The raw reviews of a listing whose turn of the loop raised nothing.
RECURSIVE Survivors(_, _)
Survivors(raw_reviews, outcomes) ==
    IF raw_reviews = <<>> THEN <<>>
    ELSE (IF outcomes[1] # "error" THEN <<raw_reviews[1]>> ELSE <<>>)
         \o Survivors(Tail(raw_reviews), Tail(outcomes))

\* C11: an error raised for one raw review is contained in its turn of the
\* loop: the other reviews of the listing fare as they would without it, and
\* the commit writes the rows they add.
C11_ReviewErrorContained ==
    [][pc[Scheduled] = "fetch"
        => \A outcomes \in {Outcomes(attrs, rows, <<>>, got'.raw_reviews, cur[Scheduled])} :
           \A rest \in {Survivors(got'.raw_reviews, outcomes)} :
              /\ Len(outcomes) = Len(got'.raw_reviews)
              /\ Outcomes(attrs, rows, <<>>, rest, cur[Scheduled])
                    = SelectSeq(outcomes, LAMBDA o : o # "error")
              /\ got'.committed
                    => rows' = rows \o AddedRows(attrs, rows, <<>>, rest, cur[Scheduled])]_vars

\* The sweep awaits the notification for a listing of which one review
\* raised an error and another was added.
C11_ErrorSkippedRestCommitted ==
    /\ pc[Scheduled] = "notify"
    /\ got.committed
    /\ "error" \in Range(outs[Scheduled])
    /\ "added" \in Range(outs[Scheduled])
    /\ \E i \in newIds[Scheduled] : i \in 1..Len(rows) /\ rows[i].user_id = cur[Scheduled]

C13_NotifyIffNew ==
    [][/\ pc[Scheduled] = "fetch"
          => /\ pc'[Scheduled] = "notify"
                <=> /\ Len(rows') > Len(rows)
                    /\ users[cur[Scheduled]].notifications_enabled
             /\ \A i \in (Len(rows) + 1)..Len(rows') : rows'[i].user_id = cur[Scheduled]
       /\ pc'[Scheduled] = "notify"
          => pc[Scheduled] = "fetch" /\ cur'[Scheduled] = cur[Scheduled]
       /\ pc'[Scheduled] = "fetch" /\ pc[Scheduled] # "idle"
          => cur'[Scheduled] > cur[Scheduled]]_vars

\* The sweep awaits the notification of account 2 for the rows it added.
C13_SecondAccountNotified ==
    /\ pc[Scheduled] = "notify"
    /\ cur[Scheduled] = 2
    /\ users[2].notifications_enabled
    /\ newIds[Scheduled] # {}

\* ------------------------------------------ properties of the request loop

\* The last answer of the transport.
LastHeard == heard[Len(heard)]

IsResponse(o, statuses) == o.kind = "response" /\ o.status \in statuses

\* The answer is no success of the request: no response, a status outside
\* 2xx, a body that is no JSON, or a truthy error field in the body.
Failure(o) ==
    \/ ~IsResponse(o, 200..299)
    \/ ~json_loads(o.text).ok
    \/ /\ json_loads(o.text).v.t = "dict"
       /\ Truthy(Get(json_loads(o.text).v, "error", JNull))

\* A 429 whose Retry-After header is absent or a number of seconds.
Throttled(o) == IsResponse(o, {429}) /\ PyInt(IF o.retry_after = JNull THEN JInt(5)
                                                ELSE o.retry_after).ok

\* The delay a Retry-After header asks for, in seconds; the date of the
\* model's header lies a minute after the response.
Delay(retry_after) ==
    IF retry_after = JNull THEN 5
    ELSE IF PyInt(retry_after).ok THEN PyInt(retry_after).v
    ELSE 60

C15_EmptyArgumentRejected ==
    call.fn = "send_reply" /\ (call.feedback_id = "" \/ call.text = "")
        => returned = JBool(FALSE) /\ attempts = 0 /\ heard = <<>>

\* send_reply was called with a feedback id and an empty text.
C15_EmptyTextCall ==
    /\ call.fn = "send_reply"
    /\ call.feedback_id # "" /\ call.text = ""
    /\ returned = JBool(FALSE)

\* C16: get_unanswered_reviews returns a list whatever the request came to:
\* the list under data.feedbacks when the last answer is a success whose body
\* holds one, the empty list otherwise.
C16_FetchNeverRaises ==
    call.fn = "get_unanswered_reviews" /\ returned # NoReturn
        => /\ returned.t = "list"
           /\ LET body == json_loads(LastHeard.text).v
              IN  IF /\ ~Failure(LastHeard)
                     /\ body.t = "dict"
                     /\ "data" \in DOMAIN body.v
                     /\ body.v["data"].t = "dict"
                     /\ "feedbacks" \in DOMAIN body.v["data"].v
                     /\ body.v["data"].v["feedbacks"].t = "list"
                  THEN returned = body.v["data"].v["feedbacks"]
                  ELSE returned = JList(<<>>)

\* get_unanswered_reviews has returned the empty list for a 200 whose body
\* holds `"data": null`.
C16_NullDataGivesEmpty ==
    /\ call.fn = "get_unanswered_reviews"
    /\ returned = JList(<<>>)
    /\ IsResponse(LastHeard, {200})
    /\ LastHeard.text = "{\"data\": null}"

\* C17: a 401 or 403 response is never retried: _make_request returns the
\* authentication error right after it, and when it is the first response,
\* one request has been issued and no sleep performed.
C17_AuthNotRetried ==
    \A i \in 1..Len(heard) :
        IsResponse(heard[i], {401, 403})
            => /\ i = Len(heard)
               /\ response = ErrorResult(JStr("Authentication error (Status: "
                                              \o NatStr(heard[i].status) \o ")"))
               /\ i = 1 => attempts = 1 /\ sleeps = <<>>

\* C18: when the transport answers 429 and then 200, _make_request has slept
\* exactly once, for the delay of the Retry-After header (5 seconds when it
\* is absent), has issued one further request and returns the body of the 200.
C18_RateLimitThenOk ==
    (/\ Len(heard) = 2
     /\ IsResponse(heard[1], {429})
     /\ IsResponse(heard[2], {200})
     /\ json_loads(heard[2].text).ok
     /\ json_loads(heard[2].text).v.t = "dict")
        => /\ sleeps = <<Delay(heard[1].retry_after)>>
           /\ attempts = 2
           /\ response = json_loads(heard[2].text).v

\* C19: 429 responses do not count toward the attempt limit: after any number
\* of them, and nothing else, _make_request has not given up, so that a 200
\* that follows is what it returns.
C19_RateLimitNotCounted ==
    (heard # <<>> /\ \A i \in 1..Len(heard) : Throttled(heard[i]))
        => response = NoReturn

\* C20: a timeout, or a response of status 4xx or 5xx other than 401, 403
\* and 429, on attempt n < retry_count is followed by a sleep of 2^n seconds
\* and a further attempt, whatever the body of the response.
C20_BackoffOnErrors ==
    \A n \in 1..Len(heard) :
        (/\ n < retry_count
         /\ \/ heard[n].kind = "TimeoutError"
            \/ IsResponse(heard[n], 400..599 \ {401, 403, 429}))
            => /\ attempts > n
               /\ Len(sleeps) >= n
               /\ sleeps[n] = 2 ^ n

\* C21: whatever the transport answers, a call issues at most retry_count
\* (3) requests, and every call that was started returns.
C21_BoundedRequests ==
    /\ [](Len(heard) <= 3 /\ attempts <= 3)
    /\ (call.fn # "none") ~> (returned # NoReturn)

\* Three requests have timed out and the call has returned.
C21_ThreeTimeouts ==
    /\ Len(heard) = 3
    /\ \A n \in 1..3 : heard[n].kind = "TimeoutError"
    /\ returned # NoReturn

\* C22: when _make_request gives up with its attempts used up (retry_count
\* requests, the last of them no success), what it returns is
\* {"error": {"message": m}} with m a text, never None.
C22_ExhaustionCarriesLastError ==
    (/\ Len(heard) = retry_count
     /\ response # NoReturn
     /\ ~IsResponse(LastHeard, 200..299))
        => /\ response.t = "dict"
           /\ DOMAIN response.v = {"error"}
           /\ response.v["error"].t = "dict"
           /\ DOMAIN response.v["error"].v = {"message"}
           /\ response.v["error"].v["message"].t = "str"

\* The text `part` occurs in the text `whole`.
Mentions(whole, part) ==
    \E i \in 1..Len(whole) : \E j \in i..Len(whole) : SubSeq(whole, i, j) = part

\* The beginnings of a text: what a snippet of it can be.
Snippets(text) == {SubSeq(text, 1, k) : k \in 1..Len(text)}

\* C23: a response (of a status other than 429) whose body is no JSON ends
\* the call with an error result whose message names the HTTP status and
\* holds a snippet of the body.
C23_InvalidJsonCarriesBody ==
    (/\ heard # <<>>
     /\ IsResponse(LastHeard, Statuses \ {429})
     /\ ~json_loads(LastHeard.text).ok)
        => /\ response.t = "dict"
           /\ "error" \in DOMAIN response.v
           /\ \E message \in {response.v["error"].v["message"]} :
                 /\ message.t = "str"
                 /\ Mentions(message.v, NatStr(LastHeard.status))
                 /\ \E snippet \in Snippets(LastHeard.text) : Mentions(message.v, snippet)


\* --------------------------------- properties of the calls that await nothing

\* C24: the query string of the request holds isAnswered = "true" for
\* is_answered = True, "false" for False (the default), and no isAnswered for
\* None; order is "dateDesc" unless given; nmId is there exactly when given.
C24_AnsweredFilterOnWire ==
    (job.fn = "get_unanswered_reviews" /\ out # NoReturn) =>
        \E given \in {job.kwargs} :
            /\ Get(given, "is_answered", JBool(FALSE)) = JBool(TRUE)
                   => Get(out, "isAnswered", JNull) = JStr("true")
            /\ Get(given, "is_answered", JBool(FALSE)) = JBool(FALSE)
                   => Get(out, "isAnswered", JNull) = JStr("false")
            /\ Get(given, "is_answered", JBool(FALSE)) = JNull
                   => "isAnswered" \notin DOMAIN out.v
            /\ "order" \notin DOMAIN given.v => Get(out, "order", JNull) = JStr("dateDesc")
            /\ "order" \in DOMAIN given.v => Get(out, "order", JNull) = given.v["order"]
            /\ "nmId" \in DOMAIN out.v <=> Get(given, "nmId", JNull) # JNull
            /\ "nmId" \in DOMAIN out.v => out.v["nmId"] = given.v["nmId"]

\* The filter was switched off and an article was given: the request
\* carries the article and no isAnswered.
C24_FilterOmitted ==
    /\ job.fn = "get_unanswered_reviews"
    /\ job.kwargs = JDict([is_answered |-> JNull, nmId |-> JInt(17)])
    /\ out = JDict([take |-> JInt(5000), skip |-> JInt(0), order |-> JStr("dateDesc"),
                    nmId |-> JInt(17)])

\* C25: normalize_review_fields returns a record for every input, a dict or
\* not: it never raises.
C25_NormalizeNeverRaises ==
    (job.fn = "normalize_review_fields" /\ out # NoReturn) => out.t = "record"

\* The fields of a normalized record that hold a text, and those that hold
\* a bool.
TextFields ==
    {"comment", "pros", "cons", "response", "product_name", "supplier_article",
     "subject_name"}

\* The fields of the raw review the record's fields are read from: the
\* path of each.
Origin(field) ==
    CASE field = "comment" -> <<"text">>
      [] field = "pros" -> <<"pros">>
      [] field = "cons" -> <<"cons">>
      [] field = "response" -> <<"answer", "text">>
      [] field = "product_name" -> <<"productDetails", "productName">>
      [] field = "supplier_article" -> <<"productDetails", "supplierArticle">>
      [] field = "subject_name" -> <<"subjectName">>

\* The value of a raw review at a path, JNull where it is absent.
RECURSIVE At(_, _)
At(x, path) ==
    IF path = <<>> THEN x
    ELSE IF x.t # "dict" THEN JNull
    ELSE At(Get(x, Head(path), JNull), Tail(path))

\* C26: the record normalize_review_fields returns for a dict holds a text
\* in each text field and a bool in is_answered (source_api_id, product_id
\* and photo_urls are texts, stars an integer and photo_url a bool by the
\* conversions that make them), and the default where the source data is
\* absent or null: "" for a text, 0 for stars, false for is_answered.
C26_TypeCorrectFields ==
    (job.fn = "normalize_review_fields" /\ out # NoReturn /\ job.review.t = "dict") =>
        /\ out.t = "record"
        /\ \A field \in TextFields :
              /\ out.v[field].t = "str"
              /\ At(job.review, Origin(field)) = JNull => out.v[field] = JStr("")
        /\ out.v.is_answered.t = "bool"
        /\ At(job.review, <<"isAnswered">>) = JNull => out.v.is_answered = JBool(FALSE)
        /\ At(job.review, <<"productValuation">>) = JNull => out.v.stars = 0
        /\ out.v.stars \in Int
        /\ out.v.photo_url \in BOOLEAN
        /\ At(job.review, <<"photoLinks">>) = JNull
              => out.v.photo_url = FALSE /\ out.v.photo_urls = "[]"

\* The links of a list of records: of each, in order, fullSize if the
\* record has one, else miniSize if it has one.
RECURSIVE Preferred(_)
Preferred(records) ==
    IF records = <<>> THEN <<>>
    ELSE (IF "fullSize" \in DOMAIN Head(records).v THEN <<Head(records).v["fullSize"]>>
          ELSE IF "miniSize" \in DOMAIN Head(records).v THEN <<Head(records).v["miniSize"]>>
          ELSE <<>>) \o Preferred(Tail(records))

\* The items of a list are all of one type.
AllOf(x, type) == x.t = "list" /\ \A i \in 1..Len(x.v) : x.v[i].t = type

\* The links of a decoded photo field, by its shape.
ByShape(x) ==
    IF AllOf(x, "dict") THEN Preferred(x.v)
    ELSE IF AllOf(x, "str") THEN x.v
    ELSE <<>>

\* A list of dicts and other things, or of strings and other things: a
\* shape the description of the function does not name.
Mixed(x) ==
    /\ x.t = "list"
    /\ \E i, j \in 1..Len(x.v) : x.v[i].t \in {"dict", "str"} /\ x.v[j].t # x.v[i].t

Hits(reviews, feedback_id) ==
    {i \in 1..Len(reviews) : PyStr(Get(reviews[i], "id", JStr(""))) = feedback_id}

C35_TrueOnAnyBody ==
    (call.fn = "send_reply" /\ returned # NoReturn /\ heard # <<>>
        /\ IsResponse(LastHeard, 200..299))
            => returned = JBool(TRUE)

\* C35: whenever the remote API answers the reply request with a 2xx status
\* and a body that is JSON and holds no truthy error field, send_reply
\* returns true; a 2xx answer with any other body gives false.
C35_TrueOnCleanBody ==
    (call.fn = "send_reply" /\ returned # NoReturn /\ heard # <<>>
        /\ IsResponse(LastHeard, 200..299))
            => returned = JBool(~Failure(LastHeard))

\* send_reply has returned true on a 200 whose body is the empty object,
\* and false on a 200 whose body is no JSON.
C35_EmptyObjectAccepted ==
    /\ call.fn = "send_reply"
    /\ heard # <<>>
    /\ IsResponse(LastHeard, {200})
    /\ LastHeard.text = "{}"
    /\ returned = JBool(TRUE)

\* --------------------------------------------- properties of the store

Inserted == {i \in 1..Len(rows') : i > Len(rows)}

\* C36: the rows a sweep inserts in one pass over a fetched batch differ
\* pairwise in their external review id, however often an id occurs in the
\* batch, and none of them repeats a row the account already holds.
C36_OneRowPerListedId ==
    [][\A i \in Inserted :
          \A j \in 1..Len(rows') :
              (/\ rows'[j].source_api_id = rows'[i].source_api_id
               /\ rows'[j].user_id = rows'[i].user_id) => j = i]_vars

\* The batch held the five-star review twice, the commit went through, and
\* the table, empty before the pass, holds one row for it.
C36_ListedTwiceStoredOnce ==
    /\ got = [raw_reviews |-> <<RawFive, RawFive>>, committed |-> TRUE]
    /\ Len(rows) = 1
    /\ rows[1].source_api_id = "r1"

\* C38: a step the sweep takes for the account in hand inserts rows of that
\* account only, changes rows of that account only, and submits a reply,
\* through the WildberriesAPI built from that account's credential, for a
\* row of that account only; the rows of the other accounts stay as they are.
C38_AccountIsolation ==
    [][/\ \A i \in Inserted : rows'[i].user_id = cur[Scheduled]
       /\ \A i \in 1..Len(rows) :
             rows'[i] # rows[i]
                 => rows[i].user_id = cur[Scheduled] /\ rows'[i].user_id = cur[Scheduled]
       /\ \A i \in 1..Len(rows') :
             AutoSubmits(Scheduled, i)
                 => /\ rows'[i].user_id = cur'[Scheduled]
                    /\ Truthy(users[cur'[Scheduled]].wb_api_key)]_vars

\* The sweep is through with both accounts: account 2 holds an answered
\* row, and account 1 a row that no reply went through for.
C38_SecondAnsweredFirstKept ==
    /\ pc[Scheduled] = "idle"
    /\ \E i, j \in 1..Len(rows) :
          /\ rows[i].user_id = 1 /\ ~rows[i].is_answered /\ i \in failed
          /\ rows[j].user_id = 2 /\ rows[j].is_answered /\ j \in acks

\* C33: when get_unanswered_reviews(user_id) returns for a fetched batch,
\* every record of the batch that normalizes and passes the content filter
\* is in the list returned, whatever the other records of the batch are.
C33_MalformedRecordSkipped ==
    (job.fn = "reviews.get_unanswered_reviews" /\ out # NoReturn
        /\ Truthy(users[job.user_id].wb_api_key))
        => \A i \in 1..Len(job.raw_reviews) :
              LET n == Normalized[job.raw_reviews[i]]
              IN  (~n.raised /\ ~has_content(n.rec).raised /\ has_content(n.rec).v)
                      => n.rec \in Range(out.v)

\* C37: a step of send_review_reply changes the table only when send_reply
\* has returned true, and then it sets the first row of (feedback_id,
\* user_id) answered with the given text and returns true; a call for a
\* missing account or one without credential returns false with no request
\* made; a step in which it returns false leaves the table as it was.
C37_ManualReplyFrame ==
    [][/\ rows' # rows
            => /\ job'.result = JBool(TRUE)
               /\ out' = JBool(TRUE)
               /\ rows' = MarkAnswered(rows, {FirstRow(rows, job.feedback_id, job.user_id)},
                                       job.text)
       /\ (job'.fn = "send_review_reply" /\ job' # job /\ ~Credentialed(job'.user_id))
            => out' = JBool(FALSE) /\ job'.requests = 0
       /\ (out' = JBool(FALSE) /\ (out' # out \/ job' # job))
            => rows' = rows]_vars

\* The function has returned true for account 1 and the row of r1 holds
\* the text it was given.
C37_MarkedAndReturnedTrue ==
    /\ job.fn = "send_review_reply"
    /\ job.user_id = 1
    /\ job.feedback_id = "r1"
    /\ job.result = JBool(TRUE)
    /\ out = JBool(TRUE)
    /\ \E i \in 1..Len(rows) :
          /\ rows[i].source_api_id = "r1"
          /\ rows[i].is_answered
          /\ rows[i].response = JStr("Blagodarim")

\* C34: with the scheduler firing for ever, the account holding its
\* credential and both switches of the auto-reply, and send_reply returning
\* true at some time when it is asked again and again, every row that is
\* unanswered and matches the five-star policy is answered at some time.
C34_EventuallyAnswered ==
    \A id \in RowIds :
        (/\ SourceTree
         /\ id <= Len(rows)
         /\ ~rows[id].is_answered
         /\ Truthy(users[rows[id].user_id].wb_api_key)
         /\ users[rows[id].user_id].auto_reply_enabled
         /\ PolicyMatch(users[rows[id].user_id], rows[id]))
            ~> (id <= Len(rows) /\ rows[id].is_answered)


\* ------------------------------------------- properties of the conversation

\* C40. regeneration_count stays within 0..3, and so does the number of
\* replies generated through regenerate_reply since the detail view was
\* opened; a step that shows the detail view leaves the count at 0 for the
\* review it shows; a reply is regenerated only below the count of 3, and
\* the count goes up by one with it; the regenerate request that is
\* answered with the limit alert comes at the count of 3, generates nothing
\* and leaves the FSM context and the store as they were.
C40_RegenerationLimit ==
    /\ [](chat.regeneration_count \in 0..3 /\ regens \in 0..3)
    /\ [][/\ (shown'.kind = "detail" /\ shown' # shown)
             => /\ chat'.regeneration_count = 0
                /\ chat'.review_id = shown'.review_id
                /\ regens' = 0
          /\ (regens' > regens)
             => /\ chat.regeneration_count < 3
                /\ chat'.regeneration_count = chat.regeneration_count + 1
                /\ regens' = regens + 1
          /\ (shown'.alert = "limit" /\ shown.alert # "limit")
             => /\ chat.regeneration_count = 3
                /\ chat' = chat
                /\ regens' = regens
                /\ rows' = rows
                /\ shown'.kind = shown.kind]_vars

\* Three replies have been regenerated for the review that was opened, and
\* the fourth request has been answered with the limit alert.
C40_RefusedAtThree ==
    /\ chat.regeneration_count = 3
    /\ regens = 3
    /\ shown.kind = "generated"
    /\ shown.alert = "limit"


\* The talker's review review_id is stored and every row of it is answered.
AnsweredFor(review_id) ==
    /\ \E i \in 1..Len(rows) :
          rows[i].source_api_id = review_id /\ rows[i].user_id = Talker
    /\ \A i \in 1..Len(rows) :
          (rows[i].source_api_id = review_id /\ rows[i].user_id = Talker)
          => rows[i].is_answered

C31_StoreMonotone ==
    [][/\ Len(rows') >= Len(rows)
       /\ \A i \in 1..Len(rows) :
             /\ rows'[i].source_api_id = rows[i].source_api_id
             /\ rows'[i].user_id = rows[i].user_id
             /\ rows[i].is_answered => rows'[i].is_answered]_vars

\* The sweep has added a row and its auto-reply pass has answered r0, the
\* detail view has stored the photo links of r1, and the manual reply has
\* answered r1.
C31_AnsweredWithStoredPhotos ==
    /\ Len(rows) > 3
    /\ rows[1].is_answered
    /\ 1 \in acks
    /\ rows[2].source_api_id = "r1"
    /\ rows[2].photo_urls = "[\"A\", \"B\"]"
    /\ rows[2].is_answered
    /\ rows[2].response = JStr("Blagodarim")

====
